---------------------------- MODULE Spec2Model ----------------------------
(***************************************************************************)
(* Engagement letter automation: the template selector, the date engine,   *)
(* the vendor resolver and the record normalizer, as one state machine.    *)
(*                                                                         *)
(* Text that the code inspects character by character (letter types, loan  *)
(* types, duration texts, name queries, dataset cells) is a sequence of    *)
(* one-character strings.  Dictionaries are functions whose DOMAIN is the  *)
(* set of keys.  Dates are day ordinals (0 = 1 January 2026, a Thursday);  *)
(* strftime turns an ordinal into the month/day/year the code prints.      *)
(***************************************************************************)
EXTENDS Integers, Sequences, FiniteSets, TLC

VARIABLES
    pc,              \* position of the running call: "idle", a step label, "done"
    fn,              \* the entry point that is running
    args,            \* its arguments
    clock,           \* [pacific |-> now in America/Los_Angeles, local |-> today in the host's zone]
    locals,          \* local variables of the running call
    io,              \* the prompts issued to the operator so far, in order
    result,          \* the returned value, or [raised |-> <exception>]
    fs               \* the files: [templates |-> path :> document, writable |-> the output directory accepts a file, outputs |-> the documents saved by the call, in order]

vars == <<pc, fn, args, clock, locals, io, result, fs>>

-----------------------------------------------------------------------------
(* Bounds of the model *)

\* first "now" of the model, as a day ordinal; the clock ranges over one week from it
FirstDay == 358
\* largest number of rows in a vendor dataset
MaxRows == 2
\* largest day, week or business-day count handed to date_builder directly
MaxQty == 5
\* longest generated duration text (beside the listed samples)
MaxLen == 2

-----------------------------------------------------------------------------
(* Python str *)

LowerCase ==
    <<"a","b","c","d","e","f","g","h","i","j","k","l","m",
      "n","o","p","q","r","s","t","u","v","w","x","y","z">>
UpperCase ==
    <<"A","B","C","D","E","F","G","H","I","J","K","L","M",
      "N","O","P","Q","R","S","T","U","V","W","X","Y","Z">>
Digits == <<"0","1","2","3","4","5","6","7","8","9">>

\* the place of a letter in the alphabet
LetterIndex ==
    [c \in {LowerCase[i] : i \in 1..Len(LowerCase)}
          \cup {UpperCase[i] : i \in 1..Len(UpperCase)} |->
       CHOOSE i \in 1..Len(LowerCase) : LowerCase[i] = c \/ UpperCase[i] = c]

upperChar(c) ==
    IF c \in DOMAIN LetterIndex THEN UpperCase[LetterIndex[c]] ELSE c

lowerChar(c) ==
    IF c \in DOMAIN LetterIndex THEN LowerCase[LetterIndex[c]] ELSE c

\* str.upper()
upper(s) == [i \in 1..Len(s) |-> upperChar(s[i])]

\* str.lower()
lower(s) == [i \in 1..Len(s) |-> lowerChar(s[i])]

\* str.isdigit() of one character
isdigit(c) == \E i \in 1..Len(Digits) : Digits[i] = c

digitValue(c) == (CHOOSE i \in 1..Len(Digits) : Digits[i] = c) - 1

\* str.strip(): leading and trailing blanks removed
RECURSIVE lstrip(_)
lstrip(s) == IF s # <<>> /\ Head(s) = " " THEN lstrip(Tail(s)) ELSE s

RECURSIVE rstrip(_)
rstrip(s) ==
    IF s # <<>> /\ s[Len(s)] = " " THEN rstrip(SubSeq(s, 1, Len(s) - 1)) ELSE s

strip(s) == rstrip(lstrip(s))

\* sub in s
contains(s, sub) ==
    \E i \in 0..(Len(s) - Len(sub)) : SubSeq(s, i + 1, i + Len(sub)) = sub

\* ''.join(filter(str.isdigit, s))
filter_isdigit(s) == SelectSeq(s, isdigit)

\* int(s) of a text of decimal digits
RECURSIVE int_of_digits(_)
int_of_digits(s) ==
    IF s = <<>> THEN 0
    ELSE 10 * int_of_digits(SubSeq(s, 1, Len(s) - 1)) + digitValue(s[Len(s)])

\* whether int(s) parses: the texts of the model hold letters, digits, blanks
\* and dots, so int() accepts exactly the non-empty digit texts (blanks around
\* them allowed)
int_parses(s) ==
    /\ strip(s) # <<>>
    /\ \A i \in 1..Len(strip(s)) : isdigit(strip(s)[i])

\* s.split(' '): the pieces between single blanks
RECURSIVE split(_)
split(s) ==
    IF \E i \in 1..Len(s) : s[i] = " "
    THEN LET k == CHOOSE i \in 1..Len(s) :
                    /\ s[i] = " "
                    /\ \A j \in 1..(i - 1) : s[j] # " "
         IN <<SubSeq(s, 1, k - 1)>> \o split(SubSeq(s, k + 1, Len(s)))
    ELSE <<s>>

-----------------------------------------------------------------------------
(* datetime *)

\* datetime.weekday(): Monday = 0 ... Sunday = 6; ordinal 0 is a Thursday
weekday(d) == (d + 3) % 7

IsLeap(y) == (y % 4 = 0 /\ y % 100 # 0) \/ y % 400 = 0

DaysInYear(y) == IF IsLeap(y) THEN 366 ELSE 365

DaysInMonth(y, m) ==
    IF m = 2 THEN (IF IsLeap(y) THEN 29 ELSE 28)
    ELSE IF m \in {4, 6, 9, 11} THEN 30 ELSE 31

RECURSIVE month_day(_, _, _)
month_day(y, m, d) ==
    IF d < DaysInMonth(y, m) THEN <<m, d + 1, y>>
    ELSE month_day(y, m + 1, d - DaysInMonth(y, m))

RECURSIVE civil(_, _)
civil(y, d) ==
    IF d < DaysInYear(y) THEN month_day(y, 1, d)
    ELSE civil(y + 1, d - DaysInYear(y))

\* str(n) of a natural number
RECURSIVE str_of_int(_)
str_of_int(n) ==
    IF n < 10 THEN <<Digits[n + 1]>>
    ELSE str_of_int(n \div 10) \o <<Digits[(n % 10) + 1]>>

\* strftime("%-m/%-d/%Y"): month, day and year without leading zeros
strftime(d) ==
    LET mdy == civil(2026, d)
    IN str_of_int(mdy[1]) \o <<"/">> \o str_of_int(mdy[2]) \o <<"/">>
         \o str_of_int(mdy[3])

-----------------------------------------------------------------------------
(* Literals of the code *)

S_APP == <<"A","P","P">>
S_APPRAISAL == <<"A","P","P","R","A","I","S","A","L">>
S_SEC == <<"S","E","C">>
S_SECONDARY == <<"S","E","C","O","N","D","A","R","Y">>
S_ENV == <<"E","N","V">>
S_ENVIRONMENTAL == <<"E","N","V","I","R","O","N","M","E","N","T","A","L">>
S_PHASE_1 == <<"P","H","A","S","E"," ","1">>
S_PHASE_2 == <<"P","H","A","S","E"," ","2">>
S_SFR == <<"S","F","R">>
S_504 == <<"5","0","4">>
S_DUAL == <<"D","U","A","L">>
S_NA == <<"N","A">>
S_N_A == <<"N","/","A">>
S_TBD == <<"T","B","D">>
S_600 == <<"6","0","0">>
S_bd == <<"b","d">>
S_business == <<"b","u","s","i","n","e","s","s">>
S_week == <<"w","e","e","k">>
S_wks == <<"w","k","s">>
S_bds == <<"b","d","s">>
S_Sec == <<"S","e","c">>
S_Env == <<"E","n","v">>
S_2_to_4_days == <<"2"," ","t","o"," ","4"," ","d","a","y","s">>

-----------------------------------------------------------------------------
(* Inputs of the model *)

LoanTypes ==
    { <<"7","a">>, <<"7","A">>, <<"5","0","4">>, <<"c","c">> }

LetterTypes ==
    { <<"A","p","p">>, <<"A","P","P">>,
      <<"a","p","p","r","a","i","s","a","l">>,
      <<"S","F","R">>, <<"s","f","r">>,
      <<"S","e","c">>, <<"s","e","c">>, <<"S","E","C">>,
      <<"S","e","c","o","n","d","a","r","y">>,
      <<"E","n","v">>,
      <<"E","N","V","I","R","O","N","M","E","N","T","A","L">>,
      <<"P","h","a","s","e"," ","1">>,
      <<"p","h","a","s","e"," ","2">>,
      <<"U","n","k","n","o","w","n">>,
      <<"D","u","a","l">> }

TemplateDirs == {"Templates"}

\* duration texts an operator types: '10 bds', '3 bds', ' 7 BDS ',
\* '2 business days', '0 bds', 'bds', '2 wks', '2 weeks', '1 Week', 'week',
\* '5 days', '12 days', '10', 'days', '0 days', '3 weekdays', '10 wks'
TimelineSamples ==
    { <<"1","0"," ","b","d","s">>,
      <<"3"," ","b","d","s">>,
      <<" ","7"," ","B","D","S"," ">>,
      <<"2"," ","b","u","s","i","n","e","s","s"," ","d","a","y","s">>,
      <<"0"," ","b","d","s">>,
      <<"b","d","s">>,
      <<"2"," ","w","k","s">>,
      <<"2"," ","w","e","e","k","s">>,
      <<"1"," ","W","e","e","k">>,
      <<"w","e","e","k">>,
      <<"5"," ","d","a","y","s">>,
      <<"1","2"," ","d","a","y","s">>,
      <<"1","0">>,
      <<"d","a","y","s">>,
      <<"0"," ","d","a","y","s">>,
      <<"3"," ","w","e","e","k","d","a","y","s">>,
      <<"1","0"," ","w","k","s">> }

TimelineAlphabet == {"1", "b", "d", " "}

\* every text over TimelineAlphabet of at most MaxLen characters
GeneratedTimelines ==
    UNION { [1..n -> TimelineAlphabet] : n \in 0..MaxLen }

Timelines == TimelineSamples \cup GeneratedTimelines

\* the instants at which a call reads the clock: seven consecutive dates in
\* the Pacific zone, the host's own date being the same, a day behind or a
\* day ahead (a host that does not run in the Pacific zone)
Nows == FirstDay..(FirstDay + 6)

Clocks == { [pacific |-> d, local |-> d + k] : d \in Nows, k \in {-1, 0, 1} }

NoClock == [pacific |-> 0, local |-> 0]

Empty == [k \in {} |-> <<>>]

\* no template read and no document saved
NoFiles == [templates |-> Empty, writable |-> TRUE, outputs |-> <<>>]

-----------------------------------------------------------------------------
(* Template Selector: generating_doc.py *)

os_path_join(dir, name) == [dir |-> dir, name |-> name]

\* _get_template_path comparing the letter type as it was typed
_get_template_path_as_typed(loan_type, letter_type, template_dir) ==
    LET lt == upper(loan_type)
        le == letter_type
        template_name ==
            IF le \in {S_APP, S_APPRAISAL, S_SFR}
            THEN [loan |-> lt, rest |-> " - Appraisal Engagement Letter.docx"]
            ELSE IF le \in {S_SEC, S_SECONDARY}
            THEN [loan |-> lt, rest |-> " - Appraisal Review Engagement Letter.docx"]
            ELSE IF le = S_PHASE_1
            THEN [loan |-> lt, rest |-> " - Phase 1 Engagement Letter.docx"]
            ELSE IF le = S_PHASE_2
            THEN [loan |-> lt, rest |-> " - Phase 2 Engagement Letter.docx"]
            ELSE [loan |-> lt, rest |-> " - Environmental Engagement Letter.docx"]
    IN os_path_join(template_dir, template_name)

\* _get_template_path whose last branch names the appraisal template
_get_template_path_default_appraisal(loan_type, letter_type, template_dir) ==
    LET lt == upper(loan_type)
        le == upper(letter_type)
        template_name ==
            IF le \in {S_SEC, S_SECONDARY}
            THEN [loan |-> lt, rest |-> " - Appraisal Review Engagement Letter.docx"]
            ELSE IF le \in {S_ENV, S_ENVIRONMENTAL}
            THEN [loan |-> lt, rest |-> " - Environmental Engagement Letter.docx"]
            ELSE IF le = S_PHASE_1
            THEN [loan |-> lt, rest |-> " - Phase 1 Engagement Letter.docx"]
            ELSE IF le = S_PHASE_2
            THEN [loan |-> lt, rest |-> " - Phase 2 Engagement Letter.docx"]
            ELSE [loan |-> lt, rest |-> " - Appraisal Engagement Letter.docx"]
    IN os_path_join(template_dir, template_name)

_get_template_path(loan_type, letter_type, template_dir) ==
    LET lt == upper(loan_type)
        le == upper(letter_type)
        template_name ==
            IF le \in {S_APP, S_APPRAISAL}
            THEN [loan |-> lt, rest |-> " - Appraisal Engagement Letter.docx"]
            ELSE IF le \in {S_SEC, S_SECONDARY}
            THEN [loan |-> lt, rest |-> " - Appraisal Review Engagement Letter.docx"]
            ELSE IF le \in {S_ENV, S_ENVIRONMENTAL}
            THEN [loan |-> lt, rest |-> " - Environmental Engagement Letter.docx"]
            ELSE IF le = S_PHASE_1
            THEN [loan |-> lt, rest |-> " - Phase 1 Engagement Letter.docx"]
            ELSE IF le = S_PHASE_2
            THEN [loan |-> lt, rest |-> " - Phase 2 Engagement Letter.docx"]
            ELSE IF le = S_SFR
            THEN [loan |-> lt, rest |-> " - Appraisal Engagement Letter.docx"]
            ELSE [loan |-> lt, rest |-> " - Environmental Engagement Letter.docx"]
    IN os_path_join(template_dir, template_name)

GetTemplatePath ==
    /\ pc = "idle"
    /\ \E loan_type \in LoanTypes, letter_type \in LetterTypes,
          template_dir \in TemplateDirs :
         /\ fn' = "_get_template_path"
         /\ args' = [loan_type |-> loan_type, letter_type |-> letter_type,
                     template_dir |-> template_dir]
         /\ result' = [value |-> _get_template_path(loan_type, letter_type,
                                                    template_dir)]
    /\ pc' = "done"
    /\ UNCHANGED <<clock, locals, io>>
    /\ UNCHANGED fs

-----------------------------------------------------------------------------
(* Date Engine: processing_data.py, _calculate_dates *)

\* the test of the loop counting Saturdays as business days
is_business_day_with_saturday(d) == weekday(d) < 6

\* delivery_date.weekday() < 5
is_business_day(d) == weekday(d) < 5

\* int(''.join(filter(str.isdigit, timeline)) or default)
timeline_quantity(timeline, default) ==
    IF filter_isdigit(timeline) # <<>>
    THEN int_of_digits(filter_isdigit(timeline))
    ELSE default

\* the branch of _calculate_dates a timeline takes
timeline_branch(timeline) ==
    IF contains(timeline, S_bd) \/ contains(timeline, S_business) THEN "bd"
    ELSE IF contains(timeline, S_week) THEN "week"
    ELSE "days"

\* if letter_type.upper() == 'SEC': the date computation is skipped
is_secondary(letter_type) == upper(letter_type) = S_SEC

\* the record _calculate_dates returns
dates_record(current_date, delivery_date) ==
    [current_date |-> strftime(current_date),
     delivery_date |-> strftime(delivery_date)]

\* the place a finished _calculate_dates returns to: its caller's next step
calculate_dates_return(caller, L, dates) ==
    IF caller = "collect_engagement_data"
    THEN /\ locals' = [L EXCEPT !.engagement_data.dates = dates]
         /\ pc' = "ced_loan"
         /\ result' = result
    ELSE /\ locals' = L
         /\ pc' = "done"
         /\ result' = [value |-> dates]

\* the body of _calculate_dates up to its loop or its return
calculate_dates_body(caller, L, letter_type, typed_timelines) ==
    \E now \in Nows :
      /\ clock' = [pacific |-> now, local |-> now]
      /\ IF is_secondary(letter_type)
         THEN /\ io' = io
              /\ calculate_dates_return(caller, L,
                    [current_date |-> strftime(now), delivery_date |-> S_N_A])
         ELSE \E text \in typed_timelines :
                LET timeline == lower(strip(text))
                    branch == timeline_branch(timeline)
                    L1 == [timeline |-> timeline, current_date |-> now,
                           delivery_date |-> now] @@ L
                IN /\ io' = Append(io, "Delivery timeline")
                   /\ IF branch = "bd"
                      THEN LET days == timeline_quantity(timeline, 10)
                           IN /\ locals' = [days |-> days,
                                            business_days |-> days] @@ L1
                              /\ pc' = "calc_loop"
                              /\ result' = result
                      ELSE IF branch = "week"
                      THEN LET weeks == timeline_quantity(timeline, 1)
                           IN calculate_dates_return(caller,
                                [weeks |-> weeks] @@ L1,
                                dates_record(now, now + 7 * weeks))
                      ELSE LET days == timeline_quantity(timeline, 7)
                           IN calculate_dates_return(caller,
                                [days |-> days] @@ L1,
                                dates_record(now, now + days))

CalculateDates ==
    /\ pc = "idle"
    /\ \E letter_type \in LetterTypes :
         /\ fn' = "_calculate_dates"
         /\ args' = [letter_type |-> letter_type]
         /\ calculate_dates_body("_calculate_dates", Empty, letter_type,
                                 Timelines)
    /\ UNCHANGED fs

\* one iteration of: while business_days > 0
CalcLoopStep ==
    /\ pc = "calc_loop"
    /\ locals.business_days > 0
    /\ LET d == locals.delivery_date + 1
       IN locals' = [locals EXCEPT
                       !.delivery_date = d,
                       !.business_days =
                           IF is_business_day(d) THEN @ - 1 ELSE @]
    /\ UNCHANGED <<pc, fn, args, clock, io, result>>
    /\ UNCHANGED fs

\* the loop's exit and the return of _calculate_dates
CalcLoopExit ==
    /\ pc = "calc_loop"
    /\ ~(locals.business_days > 0)
    /\ calculate_dates_return(fn, locals,
          dates_record(locals.current_date, locals.delivery_date))
    /\ UNCHANGED <<fn, args, clock, io>>
    /\ UNCHANGED fs

-----------------------------------------------------------------------------
(* Date Engine: main.py, date_builder and the parsing of its callers *)

\* the place a finished date_builder returns to
date_builder_return(caller, L, dates) ==
    IF caller = "input_builder"
    THEN /\ locals' = [dates |-> dates] @@ L
         /\ pc' = "ib_rest"
         /\ result' = result
    ELSE /\ locals' = L
         /\ pc' = "done"
         /\ result' = [value |-> dates]

\* the body of date_builder up to its loop or its return; start_date is now
\* in the Pacific zone, datetime.today() is the host's own date
date_builder_body(caller, L, days, weeks, business_days) ==
    \E c \in Clocks :
      /\ clock' = c
      /\ LET start_date == c.pacific
             today == c.local
             L1 == [call |-> [days |-> days, weeks |-> weeks,
                              business_days |-> business_days],
                    start_date |-> start_date] @@ L
         IN IF business_days > 0
            THEN /\ locals' = [current_date |-> start_date,
                               business_days |-> business_days] @@ L1
                 /\ pc' = "builder_loop"
                 /\ result' = result
            ELSE IF weeks > 0
            THEN date_builder_return(caller, L1,
                    dates_record(start_date, today + 7 * weeks))
            ELSE date_builder_return(caller, L1,
                    dates_record(start_date, today + days))

DateBuilder ==
    /\ pc = "idle"
    /\ \E days \in 0..MaxQty, weeks \in 0..MaxQty, business_days \in 0..MaxQty :
         /\ fn' = "date_builder"
         /\ args' = [days |-> days, weeks |-> weeks,
                     business_days |-> business_days]
         /\ date_builder_body("date_builder", Empty, days, weeks, business_days)
    /\ io' = io
    /\ UNCHANGED fs

\* one iteration of: while business_days > 0
BuilderLoopStep ==
    /\ pc = "builder_loop"
    /\ locals.business_days > 0
    /\ LET d == locals.current_date + 1
       IN locals' = [locals EXCEPT
                       !.current_date = d,
                       !.business_days =
                           IF is_business_day(d) THEN @ - 1 ELSE @]
    /\ UNCHANGED <<pc, fn, args, clock, io, result>>
    /\ UNCHANGED fs

\* the loop's exit and the return of date_builder
BuilderLoopExit ==
    /\ pc = "builder_loop"
    /\ ~(locals.business_days > 0)
    /\ date_builder_return(fn, locals,
          dates_record(locals.start_date, locals.current_date))
    /\ UNCHANGED <<fn, args, clock, io>>
    /\ UNCHANGED fs

\* quantity = date_step.split(' ')[0]; unit = date_step.split(' ')[1]; and
\* the arguments handed to date_builder, or the exception raised
parse_date_step(date_step) ==
    LET parts == split(date_step)
    IN IF Len(parts) < 2 THEN [raised |-> "IndexError"]
       ELSE LET quantity == parts[1]
                unit == parts[2]
            IN IF ~int_parses(quantity) THEN [raised |-> "ValueError"]
               ELSE IF unit = S_wks
               THEN [days |-> 0, weeks |-> int_of_digits(strip(quantity)),
                     business_days |-> 0]
               ELSE IF unit = S_bds
               THEN [days |-> 0, weeks |-> 0,
                     business_days |-> int_of_digits(strip(quantity))]
               ELSE [days |-> int_of_digits(strip(quantity)), weeks |-> 0,
                     business_days |-> 0]

\* the parse of a duration text followed by the call of date_builder
parse_and_build(caller, L, date_step) ==
    LET parsed == parse_date_step(date_step)
        L1 == [date_step |-> date_step] @@ L
    IN IF "raised" \in DOMAIN parsed
       THEN /\ locals' = L1
            /\ result' = parsed
            /\ pc' = "done"
            /\ clock' = clock
       ELSE date_builder_body(caller, L1, parsed.days, parsed.weeks,
                              parsed.business_days)

DualDateBuilder ==
    /\ pc = "idle"
    /\ \E date_step \in Timelines :
         /\ fn' = "dual_date_builder"
         /\ args' = [date_step |-> date_step]
         /\ parse_and_build("dual_date_builder", Empty, date_step)
    /\ io' = io
    /\ UNCHANGED fs

-----------------------------------------------------------------------------
(* Vendor dataset *)

Columns == {"First", "Last", "Company", "Email", "Type", "Region"}

\* the approved vendors a dataset may list: Jo Smith (App), John Smithson
\* (Appraisal/Sec), Joan Lee (Env)
VendorPool ==
    { [First |-> <<"J","o">>, Last |-> <<"S","m","i","t","h">>,
       Company |-> <<"A">>, Email |-> <<"j","@","a">>,
       Type |-> <<"A","p","p">>, Region |-> <<"W">>],
      [First |-> <<"J","o","h","n">>, Last |-> <<"S","m","i","t","h","s","o","n">>,
       Company |-> <<"B">>, Email |-> <<"j","@","b">>,
       Type |-> <<"A","p","p","r","a","i","s","a","l","/","S","e","c">>,
       Region |-> <<"E">>],
      [First |-> <<"J","o","a","n">>, Last |-> <<"L","e","e">>,
       Company |-> <<"C">>, Email |-> <<"j","@","c">>,
       Type |-> <<"E","n","v">>, Region |-> <<"W">>] }

\* the row lists of a dataset: up to MaxRows distinct vendors, in any order
RowLists ==
    { rows \in UNION { [1..n -> VendorPool] : n \in 0..MaxRows } :
        \A i, j \in 1..Len(rows) : i # j => rows[i] # rows[j] }

\* the column sets of a dataset file: all six, or one of them left out
ColumnSets == {Columns} \cup { Columns \ {c} : c \in Columns }

\* what pd.read_csv finds: a missing or unreadable file, or a table
Databases ==
    { [status |-> "missing", columns |-> {}, rows |-> <<>>],
      [status |-> "unreadable", columns |-> {}, rows |-> <<>>] }
    \cup { [status |-> "ok", columns |-> cols, rows |-> rows] :
             cols \in ColumnSets, rows \in RowLists }

\* what the operator types as a first name: 'NA', 'na', 'jo', 'JOHN', 'j.',
\* 'zz', ' jo '
FirstNameQueries ==
    { <<"N","A">>, <<"n","a">>, <<"j","o">>, <<"J","O","H","N">>,
      <<"j",".">>, <<"z","z">>, <<" ","j","o"," ">> }

\* the vendor types a lookup is made for
VendorTypes ==
    { <<"A","p","p">>, <<"A","P","P">>, <<"E","n","v">>, <<"S","e","c">>,
      <<"P","h","a","s","e"," ","1">>, <<"p","h","a","s","e"," ","2">> }

\* what the operator types as a last name: 'smith', 'son', 'zz'
LastNameQueries ==
    { <<"s","m","i","t","h">>, <<"s","o","n">>, <<"z","z">> }

\* what the operator types at the six prompts of manual entry
ManualEntries ==
    { [first_name |-> <<"M","a","x">>, last_name |-> <<"O","r">>,
       company |-> <<"M">>, email |-> <<"m","@","m">>,
       type |-> <<"a","p","p">>, region |-> <<>>],
      [first_name |-> <<" ","K","i","m">>, last_name |-> <<"P","o">>,
       company |-> <<"K">>, email |-> <<"k","@","k">>,
       type |-> <<"E","n","v">>, region |-> <<"S">>] }

\* re.search(pat, s, re.IGNORECASE) for a pattern of letters, digits, blanks
\* and dots: a dot matches any character, every other character itself
re_search(pat, s) ==
    \E i \in 0..(Len(s) - Len(pat)) :
       \A j \in 1..Len(pat) :
          pat[j] = "." \/ upperChar(pat[j]) = upperChar(s[i + j])

\* Series.str.contains(pat, case=False, na=False): pat is a regular
\* expression (regex=True is the default of pandas)
str_contains(cell, pat) == re_search(pat, cell)

\* database[database[column].str.contains(pat, case=False, na=False)]
filter_rows(rows, column, pat) ==
    LET Test(r) == str_contains(r[column], pat)
    IN SelectSeq(rows, Test)

-----------------------------------------------------------------------------
(* Vendor Resolver: processing_data.py *)

ManualPrompts ==
    <<"Vendor first name", "Vendor last name", "Vendor company",
      "Vendor email", "Vendor type", "Vendor region">>

\* _collect_vendor_manually: the six answers, stripped; the type upper-cased;
\* an empty region replaced by "N/A"
_collect_vendor_manually(typed) ==
    [first_name |-> strip(typed.first_name),
     last_name |-> strip(typed.last_name),
     company |-> strip(typed.company),
     email |-> strip(typed.email),
     type |-> upper(strip(typed.type)),
     region |-> IF strip(typed.region) # <<>> THEN strip(typed.region)
                ELSE S_N_A]

\* the dictionary built from a matched row; the row lacks a column the
\* dictionary reads exactly when this raises KeyError
row_has_columns(db) ==
    {"First", "Last", "Company", "Email", "Type"} \subseteq db.columns

vendor_of_row(db, vendor) ==
    [first_name |-> vendor.First,
     last_name |-> vendor.Last,
     company |-> vendor.Company,
     email |-> vendor.Email,
     type |-> vendor.Type,
     region |-> IF "Region" \in db.columns THEN vendor.Region ELSE S_N_A]

\* return _collect_vendor_manually(), after what was asked
autofill_manual(asked, typed) ==
    [vendor |-> _collect_vendor_manually(typed), io |-> asked \o ManualPrompts,
     source |-> "manual"]

\* _autofill_vendor without its except clause: the exception leaves the call
autofill_except_propagates(asked, typed) ==
    [vendor |-> Empty, io |-> asked, source |-> "raised"]

\* the except clause of _autofill_vendor: manual entry after what was asked
autofill_except(asked, typed) == autofill_manual(asked, typed)

autofill_found(db, asked, vendor, typed) ==
    IF row_has_columns(db)
    THEN [vendor |-> vendor_of_row(db, vendor), io |-> asked, source |-> "row"]
    ELSE autofill_except(asked, typed)

\* _autofill_vendor: the vendor returned, the prompts issued, and whether the
\* vendor is a dataset row or the operator's manual entry
_autofill_vendor(vendor_type, db, first_input, last_input, typed) ==
    IF db.status # "ok" \/ "Type" \notin db.columns
    THEN autofill_except(<<>>, typed)
    ELSE
    LET lookup_type ==
            IF upper(vendor_type) \in {S_PHASE_1, S_PHASE_2} THEN S_Env
            ELSE vendor_type
        filtered == filter_rows(db.rows, "Type", lookup_type)
        first_name == strip(first_input)
        asked1 == <<"Enter vendor's first name">>
    IN IF upper(first_name) = S_NA
       THEN autofill_manual(asked1, typed)
       ELSE IF "First" \notin db.columns
       THEN autofill_except(asked1, typed)
       ELSE
       LET matches == filter_rows(filtered, "First", first_name)
       IN IF Len(matches) = 0
          THEN autofill_manual(asked1, typed)
          ELSE IF Len(matches) = 1
          THEN autofill_found(db, asked1, matches[1], typed)
          ELSE
          LET last_name == strip(last_input)
              asked2 == Append(asked1, "Enter last name")
          IN IF "Last" \notin db.columns
             THEN autofill_except(asked2, typed)
             ELSE
             LET refined == filter_rows(matches, "Last", last_name)
             IN IF Len(refined) = 0
                THEN autofill_manual(asked2, typed)
                ELSE autofill_found(db, asked2, refined[1], typed)

AutofillVendor ==
    /\ pc = "idle"
    /\ \E vendor_type \in VendorTypes, db \in Databases,
          first_input \in FirstNameQueries, last_input \in LastNameQueries,
          typed \in ManualEntries :
         LET r == _autofill_vendor(vendor_type, db, first_input, last_input,
                                   typed)
         IN /\ fn' = "_autofill_vendor"
            /\ args' = [vendor_type |-> vendor_type, database |-> db]
            /\ locals' = [first_name |-> strip(first_input),
                          last_name |-> strip(last_input),
                          source |-> r.source]
            /\ io' = r.io
            /\ result' = IF r.source = "raised"
                         THEN [raised |-> "Exception"]
                         ELSE [value |-> r.vendor]
    /\ pc' = "done"
    /\ clock' = clock
    /\ UNCHANGED fs

-----------------------------------------------------------------------------
(* Vendor Resolver: main.py, autofill *)

\* the dataset the legacy flow reads once, when the module is loaded
LegacyDatabases == { db \in Databases : db.status = "ok" }

\* filtered.iloc[0].to_dict(): the row's cells under the dataset's columns
row_to_dict(db, row) == [c \in db.columns |-> row[c]]

\* autofill: a dictionary, or the text returned when nobody or more than one
\* vendor is found, or the KeyError of a column the dataset lacks
autofill(db, type_value, first, last, typed) ==
    IF "Type" \notin db.columns THEN [raised |-> "KeyError"]
    ELSE
    LET database == filter_rows(db.rows, "Type", type_value)
        asked1 == <<"What is the first name of the vendor?">>
    IN IF first = S_NA
       THEN [value |->
               [type |-> "dict",
                dict |-> [Company |-> typed.company, First |-> typed.first_name,
                          Last |-> typed.last_name, Type |-> type_value,
                          Email |-> typed.email, Region |-> S_NA]],
             io |-> asked1 \o <<"Please input company here",
                                "Please type first name here",
                                "Please input last name here",
                                "Please input email here">>]
       ELSE IF "First" \notin db.columns
       THEN [raised |-> "KeyError", io |-> asked1]
       ELSE
       LET filtered == filter_rows(database, "First", first)
       IN IF Len(filtered) = 1
          THEN [value |-> [type |-> "dict",
                           dict |-> row_to_dict(db, filtered[1])],
                io |-> asked1]
          ELSE IF Len(filtered) > 1
          THEN LET asked2 ==
                      Append(asked1, "What is the last name of the vendor?")
               IN IF "Last" \notin db.columns
                  THEN [raised |-> "KeyError", io |-> asked2]
                  ELSE
                  LET refined == filter_rows(filtered, "Last", last)
                  IN IF Len(refined) = 1
                     THEN [value |-> [type |-> "dict",
                                      dict |-> row_to_dict(db, refined[1])],
                           io |-> asked2]
                     ELSE [value |-> [type |-> "str",
                                      text |-> "Number of cases found",
                                      found |-> Len(refined)],
                           io |-> asked2]
          ELSE [value |-> [type |-> "str", text |-> "Nobody named found",
                           found |-> 0],
                io |-> asked1]

Autofill ==
    /\ pc = "idle"
    /\ \E type_value \in VendorTypes, db \in LegacyDatabases,
          first \in FirstNameQueries, last \in LastNameQueries,
          typed \in ManualEntries :
         LET r == autofill(db, type_value, first, last, typed)
         IN /\ fn' = "autofill"
            /\ args' = [type_value |-> type_value, data |-> db]
            /\ locals' = [first |-> first, last |-> last]
            /\ io' = IF "io" \in DOMAIN r THEN r.io ELSE <<>>
            /\ result' = IF "raised" \in DOMAIN r
                         THEN [raised |-> r.raised]
                         ELSE [value |-> r.value]
    /\ pc' = "done"
    /\ clock' = clock
    /\ UNCHANGED fs

-----------------------------------------------------------------------------
(* Legacy flow: main.py, input_builder *)

IbLoanTypes == { <<"7","a">>, <<"5","0","4">> }

IbLetterTypes == { <<"A","p","p">>, <<"S","e","c">>, <<"s","e","c">> }

\* the dataset loaded by the legacy flow, and the names typed into it
IbDatabases ==
    { db \in LegacyDatabases :
        db.columns = Columns /\ Len(db.rows) = MaxRows }

IbFirstNames == { <<"N","A">>, <<"j","o">>, <<"J","O","H","N">>, <<"z","z">> }

IbLastNames == { <<"s","o","n">> }

IbTimelines ==
    { <<"1","0"," ","b","d","s">>, <<"2"," ","w","k","s">>,
      <<"5"," ","d","a","y","s">>, <<"1","0">>, <<>>,
      <<"b","d","s">>, <<"t","w","o"," ","w","k","s">> }

\* what the operator answers to the loan and property prompts
IbAnswers ==
    { [cdc_company |-> <<"C","D","C">>, loan_name |-> <<"A","B","C">>,
       loan_number |-> <<"1","2">>, property_address |-> <<"1"," ","M">>,
       sqft |-> <<"9","0","0">>, fee |-> <<"5","0","0">>,
       property_type |-> <<"R">>, property_contact_name |-> <<"P","a","t">>,
       property_contact_phone |-> <<"5","5","5">>] }

InputBuilder ==
    /\ pc = "idle"
    /\ \E loan_type \in IbLoanTypes, letter_type \in IbLetterTypes,
          db \in IbDatabases, first \in IbFirstNames, last \in IbLastNames,
          typed \in ManualEntries :
         LET r == autofill(db, letter_type, first, last, typed)
         IN /\ fn' = "input_builder"
            /\ args' = [loan_type |-> loan_type, letter_type |-> letter_type]
            /\ io' = IF "io" \in DOMAIN r THEN r.io ELSE <<>>
            /\ IF "raised" \in DOMAIN r
               THEN /\ result' = [raised |-> r.raised]
                    /\ locals' = Empty
                    /\ pc' = "done"
               ELSE /\ result' = result
                    /\ locals' = [vendor_info |-> r.value]
                    /\ pc' = "ib_dates"
    /\ clock' = clock
    /\ UNCHANGED fs

\* if letter_type != 'Sec': the duration is asked for and parsed
IbDates ==
    /\ pc = "ib_dates"
    /\ IF args.letter_type # S_Sec
       THEN \E date_step \in IbTimelines :
              /\ io' = Append(io, "In how long does this need to be done?")
              /\ parse_and_build("input_builder", locals, date_step)
       ELSE /\ pc' = "ib_rest"
            /\ UNCHANGED <<clock, locals, io, result>>
    /\ UNCHANGED <<fn, args>>
    /\ UNCHANGED fs

\* the loan and property prompts and the mapping returned
IbRest ==
    /\ pc = "ib_rest"
    /\ \E a \in IbAnswers, now \in Nows :
         LET is504 == args.loan_type = S_504
             isSec == args.letter_type = S_Sec
             asked ==
                 IF is504
                 THEN <<"Who is the CDC Company?">>
                      \o (IF "dates" \in DOMAIN locals
                          THEN <<"What is the loan name?",
                                 "What is the loan number?",
                                 "What is the property address?",
                                 "How many square feet for the property?",
                                 "What is the fee being charged?",
                                 "What is the property type?",
                                 "Who is the property contact?",
                                 "What is the number of the property contact?">>
                          ELSE <<>>)
                 ELSE IF isSec
                 THEN <<"What is the loan name?", "What is the loan number?",
                        "What is the property address?",
                        "How many square feet for the property?",
                        "What is the property type?">>
                 ELSE <<"What is the loan name?", "What is the loan number?",
                        "What is the property address?",
                        "How many square feet for the property?",
                        "What is the fee being charged?",
                        "What is the property type?",
                        "Who is the property contact?",
                        "What is the number of the property contact?">>
             vendor_info == locals.vendor_info
             inputs ==
                 [date |-> IF isSec /\ ~is504 THEN strftime(now)
                           ELSE locals.dates.current_date,
                  contact_first_name |-> vendor_info.dict.First,
                  contact_last_name |-> vendor_info.dict.Last,
                  loan_name |-> a.loan_name,
                  company_name |-> vendor_info.dict.Company,
                  contact_email |-> vendor_info.dict.Email,
                  loan_number |-> a.loan_number,
                  property_address |-> a.property_address,
                  property_type |-> a.property_type,
                  sqft |-> a.sqft,
                  fee |-> IF isSec /\ ~is504 THEN S_600 ELSE a.fee,
                  delivery_date |-> IF isSec /\ ~is504 THEN S_2_to_4_days
                                    ELSE locals.dates.delivery_date,
                  property_contact_name |->
                      IF isSec /\ ~is504 THEN S_NA
                      ELSE a.property_contact_name,
                  property_contact_phone |->
                      IF isSec /\ ~is504 THEN S_NA
                      ELSE a.property_contact_phone,
                  item_to_send |-> S_TBD,
                  cdc_company |-> IF is504 THEN a.cdc_company ELSE S_N_A]
         IN /\ io' = io \o asked
            /\ clock' = IF isSec /\ ~is504
                        THEN [pacific |-> now, local |-> now]
                        ELSE clock
            /\ result' =
                 IF is504 /\ "dates" \notin DOMAIN locals
                 THEN [raised |-> "UnboundLocalError"]
                 ELSE IF vendor_info.type = "str"
                 THEN [raised |-> "TypeError"]
                 ELSE [value |-> inputs]
    /\ pc' = "done"
    /\ UNCHANGED <<fn, args, locals>>
    /\ UNCHANGED fs

-----------------------------------------------------------------------------
(* Record Normalizer: processing_data.py, collect_engagement_data *)

\* an optional argument: None, or a dictionary
PyNone == [is_none |-> TRUE, dict |-> Empty]
Some(d) == [is_none |-> FALSE, dict |-> d]

\* a test for None in place of the truth value: {} counts as supplied
truthy_is_not_none(o) == ~o.is_none

\* the truth value of an optional dictionary: None and {} are false
truthy(o) == ~o.is_none /\ DOMAIN o.dict # {}

CedLoanTypes == { <<"7","a">>, <<"5","0","4">> }

CedLetterTypes ==
    { <<"A","p","p">>, <<"s","e","c">>, <<"S","E","C">>,
      <<"P","h","a","s","e"," ","1">> }

PrefilledVendor ==
    [first_name |-> <<"M","a","r","k">>, last_name |-> <<"T">>,
     company |-> <<"V">>, email |-> <<"m","@","v">>,
     type |-> <<"A","P","P">>, region |-> <<"N">>]

PrefilledDates ==
    [current_date |-> <<"1","/","2","/","2","0","2","7">>,
     delivery_date |-> <<"1","/","9","/","2","0","2","7">>]

PrefilledLoan ==
    [loan_name |-> <<"A","B","C">>, loan_number |-> <<"7">>]

PrefilledProperty ==
    [property_address |-> <<"1"," ","M">>, fee |-> <<"7","5","0">>]

\* the dataset files a lookup of collect_engagement_data may find
CedDatabases ==
    { db \in Databases :
        \/ db.status = "missing"
        \/ /\ db.status = "ok"
           /\ Len(db.rows) = MaxRows
           /\ db.columns \in {Columns, Columns \ {"Email"}} }

CedFirstNames == { <<"j","o">>, <<"z","z">> }

CedLastNames == { <<"s","o","n">> }

\* what the operator types at the two prompts of _collect_dates_manually
ManualDates ==
    { [current_date |-> <<"1","/","2","/","2","0","2","7">>,
       delivery_date |-> <<" ","N","/","A">>],
      [current_date |-> <<"1","/","2","/","2","0","2","7">>,
       delivery_date |-> <<"1","/","9","/","2","0","2","7">>] }

\* what the operator types at the prompt of _calculate_dates: '3 bds', '2 wks'
CedTimelines == { <<"3"," ","b","d","s">>, <<"2"," ","w","k","s">> }

\* what the operator types at the prompts of _collect_loan_info
LoanAnswers ==
    { [loan_name |-> <<"A","B","C"," ">>, loan_number |-> <<"1","2">>,
       cdc_company |-> <<"C","D","C">>] }

\* what the operator types at the prompts of _collect_property_info
PropertyAnswers ==
    { [property_address |-> <<"1"," ","M">>, property_type |-> <<"R">>,
       sqft |-> <<"9","0","0">>, property_contact_name |-> <<"P","a","t">>,
       property_contact_phone |-> <<"5","5","5">>,
       item_to_send |-> <<>>, fee |-> <<"5","0","0">>],
      [property_address |-> <<"1"," ","M">>, property_type |-> <<"R">>,
       sqft |-> <<"9","0","0">>, property_contact_name |-> <<"P","a","t">>,
       property_contact_phone |-> <<"5","5","5">>,
       item_to_send |-> <<"P","l","a","n","s">>, fee |-> <<"4","0","0">>] }

\* _collect_dates_manually: the two answers, stripped
_collect_dates_manually(typed) ==
    [current_date |-> strip(typed.current_date),
     delivery_date |-> strip(typed.delivery_date)]

\* _collect_loan_info leaving cdc_company out when the loan is not a 504
_collect_loan_info_without_default(loan_type, letter_type, typed) ==
    LET loan_info == [loan_name |-> strip(typed.loan_name),
                      loan_number |-> strip(typed.loan_number)]
    IN IF upper(loan_type) = S_504
       THEN [cdc_company |-> strip(typed.cdc_company)] @@ loan_info
       ELSE loan_info

\* _collect_loan_info
_collect_loan_info(loan_type, letter_type, typed) ==
    [loan_name |-> strip(typed.loan_name),
     loan_number |-> strip(typed.loan_number),
     cdc_company |-> IF upper(loan_type) = S_504 THEN strip(typed.cdc_company)
                     ELSE S_N_A]

loan_prompts(loan_type) ==
    <<"Loan name", "Loan number">>
      \o (IF upper(loan_type) = S_504 THEN <<"CDC company">> ELSE <<>>)

\* _collect_property_info comparing the letter type as it was typed
_collect_property_info_as_typed(letter_type, typed) ==
    LET property_info ==
            [property_address |-> strip(typed.property_address),
             property_type |-> strip(typed.property_type),
             sqft |-> strip(typed.sqft),
             property_contact_name |-> strip(typed.property_contact_name),
             property_contact_phone |-> strip(typed.property_contact_phone),
             item_to_send |-> IF strip(typed.item_to_send) # <<>>
                              THEN strip(typed.item_to_send) ELSE S_TBD]
    IN IF letter_type = S_SEC
       THEN [fee |-> S_600] @@ property_info
       ELSE IF letter_type # S_DUAL
       THEN [fee |-> strip(typed.fee)] @@ property_info
       ELSE property_info

\* _collect_property_info
_collect_property_info(letter_type, typed) ==
    LET property_info ==
            [property_address |-> strip(typed.property_address),
             property_type |-> strip(typed.property_type),
             sqft |-> strip(typed.sqft),
             property_contact_name |-> strip(typed.property_contact_name),
             property_contact_phone |-> strip(typed.property_contact_phone),
             item_to_send |-> IF strip(typed.item_to_send) # <<>>
                              THEN strip(typed.item_to_send) ELSE S_TBD]
    IN IF upper(letter_type) = S_SEC
       THEN [fee |-> S_600] @@ property_info
       ELSE IF upper(letter_type) # S_DUAL
       THEN [fee |-> strip(typed.fee)] @@ property_info
       ELSE property_info

property_prompts(letter_type) ==
    <<"Property address", "Property type", "Square footage",
      "Property contact name", "Property contact phone", "Item to send">>
      \o (IF upper(letter_type) # S_SEC /\ upper(letter_type) # S_DUAL
          THEN <<"Fee">> ELSE <<>>)

\* the call: the record is initialized
CollectEngagementData ==
    /\ pc = "idle"
    /\ \E loan_type \in CedLoanTypes, letter_type \in CedLetterTypes,
          vendor_info \in {PyNone, Some(Empty), Some(PrefilledVendor)},
          dates_info \in {PyNone, Some(Empty), Some(PrefilledDates)},
          loan_info \in {PyNone, Some(PrefilledLoan)},
          property_info \in {PyNone, Some(PrefilledProperty)},
          use_autofill \in BOOLEAN,
          database_path \in {"None", "vendors.csv"} :
         /\ args' = [loan_type |-> loan_type, letter_type |-> letter_type,
                     vendor_info |-> vendor_info, dates_info |-> dates_info,
                     loan_info |-> loan_info, property_info |-> property_info,
                     use_autofill |-> use_autofill,
                     database_path |-> database_path]
         /\ locals' = [engagement_data |->
                         [loan_type |-> upper(loan_type),
                          letter_type |-> upper(letter_type),
                          vendor |-> Empty, dates |-> Empty,
                          loan |-> Empty, property |-> Empty]]
    /\ fn' = "collect_engagement_data"
    /\ pc' = "ced_vendor"
    /\ UNCHANGED <<clock, io, result>>
    /\ UNCHANGED fs

\* Collect vendor information
CedVendor ==
    /\ pc = "ced_vendor"
    /\ IF truthy(args.vendor_info)
       THEN /\ locals' = [locals EXCEPT
                            !.engagement_data.vendor = args.vendor_info.dict]
            /\ io' = io
            /\ pc' = "ced_dates"
            /\ result' = result
       ELSE IF args.use_autofill /\ args.database_path # "None"
       THEN \E db \in CedDatabases, first_input \in CedFirstNames,
               last_input \in CedLastNames, typed \in ManualEntries :
              LET r == _autofill_vendor(args.letter_type, db, first_input,
                                        last_input, typed)
              IN /\ locals' =
                      [database |-> db, vendor_source |-> r.source]
                      @@ [locals EXCEPT !.engagement_data.vendor = r.vendor]
                 /\ io' = io \o r.io
                 /\ result' = IF r.source = "raised"
                              THEN [raised |-> "Exception"]
                              ELSE result
                 /\ pc' = IF r.source = "raised" THEN "done"
                          ELSE "ced_dates"
       ELSE \E typed \in ManualEntries :
              /\ locals' = [locals EXCEPT !.engagement_data.vendor =
                                            _collect_vendor_manually(typed)]
              /\ io' = io \o ManualPrompts
              /\ pc' = "ced_dates"
              /\ result' = result
    /\ UNCHANGED <<fn, args, clock>>
    /\ UNCHANGED fs

\* Collect dates information
CedDates ==
    /\ pc = "ced_dates"
    /\ IF truthy(args.dates_info)
       THEN /\ locals' = [locals EXCEPT
                            !.engagement_data.dates = args.dates_info.dict]
            /\ pc' = "ced_loan"
            /\ UNCHANGED <<clock, io, result>>
       ELSE IF args.use_autofill
       THEN calculate_dates_body("collect_engagement_data", locals,
                                 args.letter_type, CedTimelines)
       ELSE \E typed \in ManualDates :
              /\ locals' = [locals EXCEPT !.engagement_data.dates =
                                            _collect_dates_manually(typed)]
              /\ io' = io \o <<"Current date", "Delivery date">>
              /\ pc' = "ced_loan"
              /\ UNCHANGED <<clock, result>>
    /\ UNCHANGED <<fn, args>>
    /\ UNCHANGED fs

\* Collect loan information
CedLoan ==
    /\ pc = "ced_loan"
    /\ IF truthy(args.loan_info)
       THEN /\ locals' = [locals EXCEPT
                            !.engagement_data.loan = args.loan_info.dict]
            /\ io' = io
       ELSE \E typed \in LoanAnswers :
              /\ locals' = [locals EXCEPT !.engagement_data.loan =
                              _collect_loan_info(args.loan_type,
                                                 args.letter_type, typed)]
              /\ io' = io \o loan_prompts(args.loan_type)
    /\ pc' = "ced_property"
    /\ UNCHANGED <<fn, args, clock, result>>
    /\ UNCHANGED fs

\* Collect property information; return engagement_data
CedProperty ==
    /\ pc = "ced_property"
    /\ IF truthy(args.property_info)
       THEN /\ locals' = [locals EXCEPT !.engagement_data.property =
                                          args.property_info.dict]
            /\ result' = [value |-> locals'.engagement_data]
            /\ io' = io
       ELSE \E typed \in PropertyAnswers :
              /\ locals' = [locals EXCEPT !.engagement_data.property =
                              _collect_property_info(args.letter_type, typed)]
              /\ result' = [value |-> locals'.engagement_data]
              /\ io' = io \o property_prompts(args.letter_type)
    /\ pc' = "done"
    /\ UNCHANGED <<fn, args, clock>>
    /\ UNCHANGED fs

-----------------------------------------------------------------------------
(* Substitution Engine: generating_doc.py *)

S_empty == <<>>

\* d.get(key, default)
dict_get(d, key, default) == IF key \in DOMAIN d THEN d[key] ELSE default

\* the assignments of _data_to_placeholders, in the order the code makes
\* them: placeholders[placeholder] = data[sub].get(key, default)
PlaceholderTable ==
    << 
       [sub |-> "vendor", key |-> "first_name", default |-> S_empty,
        placeholder |-> <<"{","{","c","o","n","t","a","c","t","_","f","i","r","s","t","_","n","a","m","e","}","}">>],
       [sub |-> "vendor", key |-> "last_name", default |-> S_empty,
        placeholder |-> <<"{","{","c","o","n","t","a","c","t","_","l","a","s","t","_","n","a","m","e","}","}">>],
       [sub |-> "vendor", key |-> "company", default |-> S_empty,
        placeholder |-> <<"{","{","c","o","m","p","a","n","y","_","n","a","m","e","}","}">>],
       [sub |-> "vendor", key |-> "email", default |-> S_empty,
        placeholder |-> <<"{","{","c","o","n","t","a","c","t","_","e","m","a","i","l","}","}">>],
       [sub |-> "dates", key |-> "current_date", default |-> S_empty,
        placeholder |-> <<"{","{","d","a","t","e","}","}">>],
       [sub |-> "dates", key |-> "delivery_date", default |-> S_empty,
        placeholder |-> <<"{","{","d","e","l","i","v","e","r","y","_","d","a","t","e","}","}">>],
       [sub |-> "loan", key |-> "loan_name", default |-> S_empty,
        placeholder |-> <<"{","{","l","o","a","n","_","n","a","m","e","}","}">>],
       [sub |-> "loan", key |-> "loan_number", default |-> S_empty,
        placeholder |-> <<"{","{","l","o","a","n","_","n","u","m","b","e","r","}","}">>],
       [sub |-> "loan", key |-> "cdc_company", default |-> S_N_A,
        placeholder |-> <<"{","{","c","d","c","_","c","o","m","p","a","n","y","}","}">>],
       [sub |-> "property", key |-> "property_address", default |-> S_empty,
        placeholder |-> <<"{","{","p","r","o","p","e","r","t","y","_","a","d","d","r","e","s","s","}","}">>],
       [sub |-> "property", key |-> "property_type", default |-> S_empty,
        placeholder |-> <<"{","{","p","r","o","p","e","r","t","y","_","t","y","p","e","}","}">>],
       [sub |-> "property", key |-> "sqft", default |-> S_empty,
        placeholder |-> <<"{","{","s","q","f","t","}","}">>],
       [sub |-> "property", key |-> "fee", default |-> S_empty,
        placeholder |-> <<"{","{","f","e","e","}","}">>],
       [sub |-> "property", key |-> "property_contact_name", default |-> S_empty,
        placeholder |-> <<"{","{","p","r","o","p","e","r","t","y","_","c","o","n","t","a","c","t","_","n","a","m","e","}","}">>],
       [sub |-> "property", key |-> "property_contact_phone", default |-> S_empty,
        placeholder |-> <<"{","{","p","r","o","p","e","r","t","y","_","c","o","n","t","a","c","t","_","p","h","o","n","e","}","}">>],
       [sub |-> "property", key |-> "item_to_send", default |-> S_TBD,
        placeholder |-> <<"{","{","i","t","e","m","_","t","o","_","s","e","n","d","}","}">>] >>

\* _data_to_placeholders: the dictionary as the list of its items, a
\* dictionary keeping the order of insertion; the items of a sub-record
\* are added only if the sub-record is in data
_data_to_placeholders(data) ==
    LET present == SelectSeq(PlaceholderTable,
                             LAMBDA e : e.sub \in DOMAIN data)
    IN [i \in 1..Len(present) |->
          [placeholder |-> present[i].placeholder,
           replacement |-> dict_get(data[present[i].sub], present[i].key,
                                    present[i].default)]]

\* s.find(sub) + 1: where sub first occurs in s, 0 when it does not
str_find(s, sub) ==
    LET at == { i \in 1..(Len(s) - Len(sub) + 1) :
                  SubSeq(s, i, i + Len(sub) - 1) = sub }
    IN IF at = {} THEN 0 ELSE CHOOSE i \in at : \A k \in at : i <= k

\* s.replace(old, new) matching old whatever the letter case
RECURSIVE str_replace_ignoring_case(_, _, _)
str_replace_ignoring_case(s, old, new) ==
    LET i == str_find(lower(s), lower(old))
    IN IF i = 0 THEN s
       ELSE SubSeq(s, 1, i - 1) \o new
            \o str_replace_ignoring_case(SubSeq(s, i + Len(old), Len(s)),
                                         old, new)

\* s.replace(old, new): every occurrence of old, found from the left and
\* not overlapping, gives way to new (old is never empty here)
RECURSIVE str_replace(_, _, _)
str_replace(s, old, new) ==
    LET i == str_find(s, old)
    IN IF i = 0 THEN s
       ELSE SubSeq(s, 1, i - 1) \o new
            \o str_replace(SubSeq(s, i + Len(old), Len(s)), old, new)

\* for placeholder, replacement in placeholders.items():
\*     if placeholder in paragraph.text:
\*         paragraph.text = paragraph.text.replace(placeholder, replacement)
\* the loop leaving after the first token it has replaced
RECURSIVE replace_in_paragraph_first_token_only(_, _)
replace_in_paragraph_first_token_only(text, placeholders) ==
    IF placeholders = <<>> THEN text
    ELSE LET item == Head(placeholders)
         IN IF contains(text, item.placeholder)
            THEN str_replace(text, item.placeholder, item.replacement)
            ELSE replace_in_paragraph_first_token_only(text,
                                                       Tail(placeholders))

RECURSIVE replace_in_paragraph(_, _)
replace_in_paragraph(text, placeholders) ==
    IF placeholders = <<>> THEN text
    ELSE LET item == Head(placeholders)
         IN replace_in_paragraph(
               IF contains(text, item.placeholder)
               THEN str_replace(text, item.placeholder, item.replacement)
               ELSE text,
               Tail(placeholders))

\* for paragraph in paragraphs: ...
replace_in_paragraphs(paragraphs, placeholders) ==
    [i \in 1..Len(paragraphs) |->
       replace_in_paragraph(paragraphs[i], placeholders)]

\* replace_in_section leaving the first-page header as it is
replace_in_section_default_header_only(section, placeholders) ==
    [header |-> replace_in_paragraphs(section.header, placeholders),
     first_page_header |-> section.first_page_header,
     footer |-> replace_in_paragraphs(section.footer, placeholders)]

\* a section after the loops over its header, its first-page header and
\* its footer
replace_in_section(section, placeholders) ==
    [header |-> replace_in_paragraphs(section.header, placeholders),
     first_page_header |->
        replace_in_paragraphs(section.first_page_header, placeholders),
     footer |-> replace_in_paragraphs(section.footer, placeholders)]

\* for table in doc.tables: for row in table.rows: for cell in row.cells:
\*     for paragraph in cell.paragraphs: ...
replace_in_table(table, placeholders) ==
    [r \in 1..Len(table) |->
       [c \in 1..Len(table[r]) |->
          replace_in_paragraphs(table[r][c], placeholders)]]

\* _replace_placeholders_in_document: the document after the call (the
\* code changes doc in place)
_replace_placeholders_in_document(doc, placeholders) ==
    [paragraphs |-> replace_in_paragraphs(doc.paragraphs, placeholders),
     sections |-> [i \in 1..Len(doc.sections) |->
                     replace_in_section(doc.sections[i], placeholders)],
     tables |-> [i \in 1..Len(doc.tables) |->
                   replace_in_table(doc.tables[i], placeholders)]]

\* the sub-records of a record whose every field is filled in
FullVendor ==
    [first_name |-> <<"M","a","r","k">>, last_name |-> <<"T","a","y">>, company |-> <<"V","a","l"," ","C","o">>, email |-> <<"m","@","v">>,
     type |-> S_APP, region |-> S_N_A]

FullDates == [current_date |-> <<"1","/","2","/","2","0","2","7">>, delivery_date |-> <<"1","/","9","/","2","0","2","7">>]

FullLoan == [loan_name |-> <<"A","B","C">>, loan_number |-> <<"7","7">>, cdc_company |-> <<"C","D","C">>]

FullProperty ==
    [property_address |-> <<"1"," ","M","a","i","n">>, property_type |-> <<"R","e","t","a","i","l">>, sqft |-> <<"9","0","0">>,
     fee |-> <<"5","0","0">>, property_contact_name |-> <<"P","a","t">>,
     property_contact_phone |-> <<"5","5","5">>, item_to_send |-> <<"P","l","a","n","s">>]

FullData ==
    [vendor |-> FullVendor, dates |-> FullDates, loan |-> FullLoan,
     property |-> FullProperty]

\* a record without its key k of sub-record sub
without(data, sub, k) ==
    [data EXCEPT ![sub] = [x \in DOMAIN data[sub] \ {k} |-> data[sub][x]]]

\* the records handed to substitution: filled in; with a vendor first name
\* that reads as the fee token; lacking a key of a sub-record; with an
\* empty vendor sub-record
SubstitutionData ==
    { FullData,
      [FullData EXCEPT !.vendor.first_name = <<"{","{","f","e","e","}","}">>],
      without(FullData, "vendor", "email"),
      without(FullData, "dates", "delivery_date"),
      without(FullData, "loan", "cdc_company"),
      without(without(FullData, "property", "item_to_send"),
              "property", "fee"),
      [FullData EXCEPT !.vendor = Empty] }

\* texts that are no recognized token
S_Dear == <<"D","e","a","r"," ","S","i","r">>
S_Unrecognized == <<"{","{","f","o","o","}","}"," ","{","{","F","e","e","}","}"," ","{","f","e","e","}">>
S_Before == <<"{","{","F","e","e","}","}","<">>
S_After == <<">","{","{","f","o","o","}","}">>
S_Between == <<"|">>

\* paragraphs of a template that hold no recognized token
PlainParagraphs == <<S_Dear, S_Unrecognized>>

\* the texts fill[i]..fill[j], S_Between between them
RECURSIVE joined(_, _, _)
joined(fill, i, j) ==
    IF i > j THEN <<>>
    ELSE IF i = j THEN fill[i]
    ELSE fill[i] \o S_Between \o joined(fill, i + 1, j)

\* paragraphs holding the texts of fill in order, per of them a paragraph
slot_paragraphs(fill, per) ==
    LET n == Len(fill)
        count == (n + per - 1) \div per
    IN [q \in 1..count |->
          S_Before
          \o joined(fill, (q - 1) * per + 1,
                    IF q * per < n THEN q * per ELSE n)
          \o S_After]

\* a document of two sections and one table of two rows of two cells, the
\* texts of fill sitting in one region: the body, the header of the second
\* section, the first-page header of the first section, the footer of the
\* second section, or a cell of the table
document_with(region, per, fill) ==
    LET at(r) == IF region = r
                 THEN PlainParagraphs \o slot_paragraphs(fill, per)
                 ELSE PlainParagraphs
    IN [paragraphs |-> at("body"),
        sections |->
          << [header |-> PlainParagraphs,
              first_page_header |-> at("first_page_header"),
              footer |-> <<>>],
             [header |-> at("header"),
              first_page_header |-> <<>>,
              footer |-> at("footer")] >>,
        tables |-> << << <<PlainParagraphs, at("table")>>,
                         <<<<>>, PlainParagraphs>> >> >>]

Regions == {"body", "header", "first_page_header", "footer", "table"}

\* how many tokens a paragraph of a template holds
SlotsPerParagraph == {1, 4, Len(PlaceholderTable)}

placeholder_texts == [i \in 1..Len(PlaceholderTable) |->
                        PlaceholderTable[i].placeholder]

\* the templates: every recognized token once, in one region
template_of(region, per) == document_with(region, per, placeholder_texts)

Templates ==
    { template_of(region, per) : region \in Regions,
                                 per \in SlotsPerParagraph }

ReplacePlaceholders ==
    /\ pc = "idle"
    /\ \E doc \in Templates, data \in SubstitutionData :
         /\ args' = [doc |-> doc,
                     placeholders |-> _data_to_placeholders(data)]
         /\ result' = [value |->
                         _replace_placeholders_in_document(
                            doc, _data_to_placeholders(data))]
    /\ fn' = "_replace_placeholders_in_document"
    /\ pc' = "done"
    /\ locals' = Empty
    /\ UNCHANGED <<clock, io, fs>>

-----------------------------------------------------------------------------
(* Letter generation: generating_doc.py, generate_engagement_letter *)

D_Appraisal == <<"A","p","p","r","a","i","s","a","l">>
D_Appraisal_Review == <<"A","p","p","r","a","i","s","a","l"," ","R","e","v","i","e","w">>
D_Environmental == <<"E","n","v","i","r","o","n","m","e","n","t","a","l">>
D_Phase_1 == <<"P","h","a","s","e"," ","1">>
D_Phase_2 == <<"P","h","a","s","e"," ","2">>
D_Single_Family_Residence == <<"S","i","n","g","l","e"," ","F","a","m","i","l","y"," ","R","e","s","i","d","e","n","c","e">>
S_Engagement_Letter_docx == <<" ","E","n","g","a","g","e","m","e","n","t"," ","L","e","t","t","e","r",".","d","o","c","x">>
S_Appraisal_Engagement_Letter_docx == <<" ","A","p","p","r","a","i","s","a","l"," ","E","n","g","a","g","e","m","e","n","t"," ","L","e","t","t","e","r",".","d","o","c","x">>
S_Phase_1_Engagement_Letter_docx == <<" ","P","h","a","s","e"," ","1"," ","E","n","g","a","g","e","m","e","n","t"," ","L","e","t","t","e","r",".","d","o","c","x">>

\* _get_letter_type_display
_get_letter_type_display(letter_type) ==
    LET le == upper(letter_type)
    IN IF le \in {S_APP, S_APPRAISAL} THEN D_Appraisal
       ELSE IF le \in {S_SEC, S_SECONDARY} THEN D_Appraisal_Review
       ELSE IF le \in {S_ENV, S_ENVIRONMENTAL} THEN D_Environmental
       ELSE IF le = S_PHASE_1 THEN D_Phase_1
       ELSE IF le = S_PHASE_2 THEN D_Phase_2
       ELSE IF le = S_SFR THEN D_Single_Family_Residence
       ELSE le

\* an optional text argument: None, or a text
NoText == [is_none |-> TRUE, text |-> <<>>]
Text(t) == [is_none |-> FALSE, text |-> t]

\* lines 34-42: the keys read from data, the template path and the test
\* that the template exists; raises KeyError or FileNotFoundError
gel_resolve(data, template_dir, files) ==
    IF ~({"loan_type", "letter_type", "loan"} \subseteq DOMAIN data)
    THEN [raised |-> "KeyError"]
    ELSE IF "loan_name" \notin DOMAIN data.loan
    THEN [raised |-> "KeyError"]
    ELSE LET template_path == _get_template_path(data.loan_type,
                                                 data.letter_type,
                                                 template_dir)
         IN IF template_path \notin DOMAIN files.templates
            THEN [raised |-> "FileNotFoundError",
                  message |-> [text |-> "Template not found: ",
                               path |-> template_path]]
            ELSE [loan_type |-> data.loan_type,
                  letter_type |-> data.letter_type,
                  loan_name |-> data.loan.loan_name,
                  template_path |-> template_path]

\* lines 44-49: the template loaded and its placeholders replaced
gel_substitute(data, template_path, files) ==
    _replace_placeholders_in_document(files.templates[template_path],
                                      _data_to_placeholders(data))

\* lines 51-57: the output path
gel_output_path(loan_name, letter_type, output_dir, output_filename) ==
    os_path_join(output_dir,
                 IF output_filename.is_none \/ output_filename.text = <<>>
                 THEN loan_name \o <<" ">>
                      \o _get_letter_type_display(letter_type)
                      \o S_Engagement_Letter_docx
                 ELSE output_filename.text)

\* doc.save(output_path) writing the document although the directory
\* refuses it
gel_save_unchecked(output_path, doc, files) ==
    [result |-> [raised |-> "OSError"],
     files |-> [files EXCEPT !.outputs =
                  Append(@, [path |-> output_path, doc |-> doc])]]

\* lines 58-61: doc.save(output_path) and the return; the save raises and
\* writes nothing when the output directory does not take the file
gel_save(output_path, doc, files) ==
    IF files.writable
    THEN [result |-> [value |-> output_path],
          files |-> [files EXCEPT !.outputs =
                       Append(@, [path |-> output_path, doc |-> doc])]]
    ELSE [result |-> [raised |-> "OSError"], files |-> files]

\* generate_engagement_letter as a callee: its outcome and the files after
generate_engagement_letter(data, template_dir, output_dir, output_filename, files) ==
    LET r == gel_resolve(data, template_dir, files)
    IN IF "raised" \in DOMAIN r
       THEN [result |-> r, files |-> files]
       ELSE gel_save(gel_output_path(r.loan_name, r.letter_type, output_dir,
                                     output_filename),
                     gel_substitute(data, r.template_path, files),
                     files)

\* the template every file of the template directory holds
LetterTemplate == template_of("table", 4)

TemplateNames ==
    { [loan |-> loan, rest |-> rest] :
        loan \in {S_504, <<"7","A">>},
        rest \in {" - Appraisal Engagement Letter.docx",
                  " - Environmental Engagement Letter.docx",
                  " - Phase 1 Engagement Letter.docx"} }

\* the listings of the template directory: empty, the templates of the
\* 504 loans but the environmental one, those of the 504 loans, all
Listings ==
    { {},
      { n \in TemplateNames :
          n.loan = S_504 /\ n.rest # " - Environmental Engagement Letter.docx" },
      { n \in TemplateNames : n.loan = S_504 },
      TemplateNames }

\* the files a request finds
files_of(template_dir, listing, writable) ==
    [templates |-> [path \in { os_path_join(template_dir, n) : n \in listing }
                      |-> LetterTemplate],
     writable |-> writable,
     outputs |-> <<>>]

GelLoanTypes == { S_504, <<"7","a">> }

GelLetterTypes ==
    { S_APP, <<"s","f","r">>, <<"P","h","a","s","e"," ","1">>,
      <<"U","n","k","n","o","w","n">> }

\* the records: filled in, or lacking a key of a sub-record
GelRecords ==
    { FullData,
      without(FullData, "vendor", "email"),
      without(FullData, "dates", "delivery_date"),
      without(FullData, "loan", "loan_name"),
      without(FullData, "loan", "cdc_company"),
      without(without(FullData, "property", "item_to_send"),
              "property", "fee") }

OutputFilenames == { NoText, Text(<<"o","u","t",".","d","o","c","x">>) }

\* the call, lines 34-42
GenerateEngagementLetter ==
    /\ pc = "idle"
    /\ \E loan_type \in GelLoanTypes, letter_type \in GelLetterTypes,
          record \in GelRecords, template_dir \in TemplateDirs,
          listing \in Listings, writable \in BOOLEAN,
          output_filename \in OutputFilenames :
         LET data == [loan_type |-> loan_type, letter_type |-> letter_type]
                     @@ record
             files == files_of(template_dir, listing, writable)
             r == gel_resolve(data, template_dir, files)
         IN /\ args' = [data |-> data, template_dir |-> template_dir,
                        output_dir |-> "out",
                        output_filename |-> output_filename]
            /\ fs' = files
            /\ IF "raised" \in DOMAIN r
               THEN /\ result' = r
                    /\ locals' = Empty
                    /\ pc' = "done"
               ELSE /\ result' = result
                    /\ locals' = r
                    /\ pc' = "gel_substitute"
    /\ fn' = "generate_engagement_letter"
    /\ UNCHANGED <<clock, io>>

\* lines 44-49
GelSubstitute ==
    /\ pc = "gel_substitute"
    /\ locals' = [placeholders |-> _data_to_placeholders(args.data),
                  doc |-> gel_substitute(args.data, locals.template_path, fs)]
                 @@ locals
    /\ pc' = "gel_save"
    /\ UNCHANGED <<fn, args, clock, io, result, fs>>

\* lines 51-61
GelSave ==
    /\ pc = "gel_save"
    /\ LET output_path == gel_output_path(locals.loan_name,
                                          locals.letter_type,
                                          args.output_dir,
                                          args.output_filename)
           saved == gel_save(output_path, locals.doc, fs)
       IN /\ locals' = [output_path |-> output_path] @@ locals
          /\ result' = saved.result
          /\ fs' = saved.files
    /\ pc' = "done"
    /\ UNCHANGED <<fn, args, clock, io>>

-----------------------------------------------------------------------------
(* Letter generation: generating_doc.py, generate_dual_engagement_letters *)

S_500 == <<"5","0","0">>
S_750 == <<"7","5","0">>

\* the dates sub-record of a side, with its fee or without one
DualDates(fee) ==
    IF fee.is_none THEN FullDates ELSE [fee |-> fee.text] @@ FullDates

\* the property sub-record _collect_property_info('DUAL') gives: no fee
SharedProperty ==
    [x \in DOMAIN FullProperty \ {"fee"} |-> FullProperty[x]]

\* the dual records: each side's dates with a fee or without, the shared
\* loan with its name or without
DualRecords ==
    { [loan_type |-> S_504,
       appraisal |-> [letter_type |-> S_APP, vendor |-> FullVendor,
                      dates |-> DualDates(app_fee)],
       environmental |-> [letter_type |-> S_ENV, vendor |-> FullVendor,
                          dates |-> DualDates(env_fee)],
       shared |-> [loan |-> loan, property |-> SharedProperty]] :
        app_fee \in {NoText, Text(S_500)},
        env_fee \in {NoText, Text(S_750)},
        loan \in {FullLoan,
                  [x \in DOMAIN FullLoan \ {"loan_name"} |-> FullLoan[x]]} }

\* the listings of the template directory for a dual request: the
\* appraisal and the environmental template of the 504 loans, each there
\* or not
DualListings ==
    { { n \in TemplateNames : n.loan = S_504 /\ n.rest \in rests } :
        rests \in SUBSET {" - Appraisal Engagement Letter.docx",
                          " - Environmental Engagement Letter.docx"} }

\* a side's record as generate_engagement_letter sees it: "property" is
\* the dictionary dual_data["shared"]["property"] itself, not a copy, so
\* its content is that of the shared dictionary at the time of the call
side_data(side, dual_data) ==
    [loan_type |-> side.loan_type, letter_type |-> side.letter_type,
     vendor |-> side.vendor, dates |-> side.dates, loan |-> side.loan,
     property |-> dual_data.shared.property]

\* if "fee" in dates: side_data["property"]["fee"] = dates["fee"], the
\* assignment landing in the shared dictionary
merge_fee(dual_data, dates) ==
    IF "fee" \in DOMAIN dates
    THEN [dual_data EXCEPT !.shared.property =
            [fee |-> dates.fee]
            @@ [x \in DOMAIN @ \ {"fee"} |-> @[x]]]
    ELSE dual_data

\* generate_from_json's return for a dual record, or the tuple itself
dual_return(caller, paths) ==
    IF caller = "generate_from_json"
    THEN [text |-> "Generated: {0} and {1}", paths |-> paths]
    ELSE [text |-> "", paths |-> paths]

\* the call, lines 81-103: the appraisal letter. dual_data is the caller's
\* dictionary, changed in place; app_data["property"] names the shared
\* property dictionary
GenerateDualEngagementLetters ==
    /\ pc = "idle"
    /\ \E record \in DualRecords, template_dir \in TemplateDirs,
          listing \in DualListings, writable \in BOOLEAN,
          caller \in {"caller", "generate_from_json"} :
         /\ args' = [dual_data |-> record, template_dir |-> template_dir,
                     output_dir |-> "out", caller |-> caller]
         /\ IF "loan_name" \notin DOMAIN record.shared.loan
            THEN /\ result' = [raised |-> "KeyError"]
                 /\ locals' = [dual_data |-> record]
                 /\ fs' = files_of(template_dir, listing, writable)
                 /\ pc' = "done"
            ELSE LET app_data ==
                       [loan_type |-> record.loan_type,
                        letter_type |-> S_APP,
                        vendor |-> record.appraisal.vendor,
                        dates |-> record.appraisal.dates,
                        loan |-> record.shared.loan,
                        property |-> "dual_data.shared.property"]
                     dual_data == merge_fee(record, record.appraisal.dates)
                     call == generate_engagement_letter(
                                side_data(app_data, dual_data),
                                template_dir, "out",
                                Text(record.shared.loan.loan_name
                                     \o S_Appraisal_Engagement_Letter_docx),
                                files_of(template_dir, listing, writable))
                 IN /\ fs' = call.files
                    /\ IF "raised" \in DOMAIN call.result
                       THEN /\ result' = call.result
                            /\ locals' = [dual_data |-> dual_data,
                                          app_data |-> app_data]
                            /\ pc' = "done"
                       ELSE /\ result' = result
                            /\ locals' = [dual_data |-> dual_data,
                                          app_data |-> app_data,
                                          loan_name |->
                                             record.shared.loan.loan_name,
                                          app_path |-> call.result.value]
                            /\ pc' = "gdl_environmental"
    /\ fn' = "generate_dual_engagement_letters"
    /\ UNCHANGED <<clock, io>>

\* lines 105-126: the environmental letter and the return
GdlEnvironmental ==
    /\ pc = "gdl_environmental"
    /\ LET env_data ==
             [loan_type |-> locals.dual_data.loan_type,
              letter_type |-> S_ENV,
              vendor |-> locals.dual_data.environmental.vendor,
              dates |-> locals.dual_data.environmental.dates,
              loan |-> locals.dual_data.shared.loan,
              property |-> "dual_data.shared.property"]
           dual_data == merge_fee(locals.dual_data,
                                  locals.dual_data.environmental.dates)
           call == generate_engagement_letter(
                      side_data(env_data, dual_data),
                      args.template_dir, args.output_dir,
                      Text(locals.loan_name
                           \o S_Phase_1_Engagement_Letter_docx),
                      fs)
       IN /\ fs' = call.files
          /\ locals' = [locals EXCEPT !.dual_data = dual_data]
                       @@ [env_data |-> env_data]
          /\ result' = IF "raised" \in DOMAIN call.result
                       THEN call.result
                       ELSE [value |->
                               dual_return(args.caller,
                                           <<locals.app_path,
                                             call.result.value>>)]
    /\ pc' = "done"
    /\ UNCHANGED <<fn, args, clock, io>>

-----------------------------------------------------------------------------
(* Loan and property collectors called on their own: processing_data.py *)

\* what the operator types at the prompts of _collect_loan_info
LoanTyped ==
    { [loan_name |-> <<"A","B","C"," ">>, loan_number |-> <<"1","2">>,
       cdc_company |-> cdc] :
        cdc \in { <<"C","D","C">>, <<" ","C","D"," ">>, <<>> } }

\* what the operator types at the prompts of _collect_property_info
PropertyTyped ==
    PropertyAnswers \cup
    { [property_address |-> <<" ","2"," ","N"," ">>, property_type |-> <<>>,
       sqft |-> <<"1","0">>, property_contact_name |-> <<"L","e","e">>,
       property_contact_phone |-> <<>>,
       item_to_send |-> <<" "," ">>, fee |-> <<" ","9","5","0"," ">>] }

CollectLoanInfo ==
    /\ pc = "idle"
    /\ \E loan_type \in LoanTypes, letter_type \in {S_APP, S_DUAL},
          typed \in LoanTyped :
         /\ args' = [loan_type |-> loan_type, letter_type |-> letter_type]
         /\ locals' = [typed |-> typed]
         /\ io' = loan_prompts(loan_type)
         /\ result' = [value |->
                         _collect_loan_info(loan_type, letter_type, typed)]
    /\ fn' = "_collect_loan_info"
    /\ pc' = "done"
    /\ UNCHANGED <<clock, fs>>

CollectPropertyInfo ==
    /\ pc = "idle"
    /\ \E letter_type \in LetterTypes \cup {S_DUAL},
          typed \in PropertyTyped :
         /\ args' = [letter_type |-> letter_type]
         /\ locals' = [typed |-> typed]
         /\ io' = property_prompts(letter_type)
         /\ result' = [value |-> _collect_property_info(letter_type, typed)]
    /\ fn' = "_collect_property_info"
    /\ pc' = "done"
    /\ UNCHANGED <<clock, fs>>

-----------------------------------------------------------------------------
(* The state machine *)

Init ==
    /\ pc = "idle"
    /\ fn = "none"
    /\ args = Empty
    /\ clock = NoClock
    /\ locals = Empty
    /\ io = <<>>
    /\ result = Empty
    /\ fs = NoFiles

\* the call is over: the next request starts from a fresh state
Reset ==
    /\ pc = "done"
    /\ pc' = "idle"
    /\ fn' = "none"
    /\ args' = Empty
    /\ clock' = NoClock
    /\ locals' = Empty
    /\ io' = <<>>
    /\ result' = Empty
    /\ fs' = NoFiles

Next ==
    \/ GetTemplatePath
    \/ CalculateDates
    \/ CalcLoopStep
    \/ CalcLoopExit
    \/ DateBuilder
    \/ BuilderLoopStep
    \/ BuilderLoopExit
    \/ DualDateBuilder
    \/ AutofillVendor
    \/ Autofill
    \/ InputBuilder
    \/ IbDates
    \/ IbRest
    \/ CollectEngagementData
    \/ CedVendor
    \/ CedDates
    \/ CedLoan
    \/ CedProperty
    \/ CollectLoanInfo
    \/ CollectPropertyInfo
    \/ ReplacePlaceholders
    \/ GenerateEngagementLetter
    \/ GelSubstitute
    \/ GelSave
    \/ GenerateDualEngagementLetters
    \/ GdlEnvironmental
    \/ Reset

Spec == Init /\ [][Next]_vars

-----------------------------------------------------------------------------
(* Template Selector: the claims *)

RecognizedLetterTypes ==
    {S_APP, S_APPRAISAL, S_SFR, S_SEC, S_SECONDARY, S_ENV, S_ENVIRONMENTAL,
     S_PHASE_1, S_PHASE_2}

\* the table of the specification: normalized letter type -> template suffix
SuffixOf(le) ==
    CASE le \in {S_APP, S_APPRAISAL, S_SFR} -> "Appraisal Engagement Letter"
      [] le \in {S_SEC, S_SECONDARY} -> "Appraisal Review Engagement Letter"
      [] le \in {S_ENV, S_ENVIRONMENTAL} -> "Environmental Engagement Letter"
      [] le = S_PHASE_1 -> "Phase 1 Engagement Letter"
      [] le = S_PHASE_2 -> "Phase 2 Engagement Letter"
      [] OTHER -> "Environmental Engagement Letter"

TemplateSelected == pc = "done" /\ fn = "_get_template_path"

\* C1: for a letter type whose upper-cased form is recognized, the template
\* returned is "{LOAN_TYPE} - {suffix}.docx" in the template directory, the
\* suffix being the table's entry for the upper-cased letter type and
\* LOAN_TYPE the upper-cased loan type, whatever the spelling of either.
C1_RecognizedTemplate ==
    (TemplateSelected /\ upper(args.letter_type) \in RecognizedLetterTypes) =>
       /\ "value" \in DOMAIN result
       /\ result.value.dir = args.template_dir
       /\ result.value.name.loan = upper(args.loan_type)
       /\ result.value.name.rest =
             " - " \o SuffixOf(upper(args.letter_type)) \o ".docx"

C1_Witness ==
    /\ TemplateSelected
    /\ args.letter_type = <<"s","f","r">>
    /\ args.loan_type = <<"7","a">>
    /\ result.value.name.loan = <<"7","A">>
    /\ result.value.name.rest = " - Appraisal Engagement Letter.docx"

\* C2: for a letter type whose upper-cased form is not recognized, the
\* selection does not raise and names the environmental template of the
\* upper-cased loan type.
C2_UnknownFallsBack ==
    (TemplateSelected /\ upper(args.letter_type) \notin RecognizedLetterTypes) =>
       /\ "raised" \notin DOMAIN result
       /\ result.value.dir = args.template_dir
       /\ result.value.name =
             [loan |-> upper(args.loan_type),
              rest |-> " - Environmental Engagement Letter.docx"]

C2_Witness ==
    /\ TemplateSelected
    /\ args.letter_type = <<"U","n","k","n","o","w","n">>
    /\ args.loan_type = S_504
    /\ result.value.name.rest = " - Environmental Engagement Letter.docx"

-----------------------------------------------------------------------------
(* Date Engine: the claims *)

\* Monday to Friday
IsWeekday(d) == weekday(d) \in 0..4

\* d is the n-th Monday-to-Friday date strictly after start
IsNthWeekdayAfter(d, n, start) ==
    /\ d > start
    /\ IsWeekday(d)
    /\ Cardinality({x \in (start + 1)..d : IsWeekday(x)}) = n

\* the n-th Monday-to-Friday date strictly after start, n > 0
NthWeekdayAfter(start, n) ==
    CHOOSE d \in (start + 1)..(start + 2 * n + 7) : IsNthWeekdayAfter(d, n, start)

\* the weekend days that lie directly ahead of d
WeekendAhead(d) ==
    IF weekday(d + 1) = 5 THEN 2 ELSE IF weekday(d + 1) = 6 THEN 1 ELSE 0

\* what is left of a business-day loop: it decreases with every iteration
LoopRank(d, business_days) == 3 * business_days + WeekendAhead(d)

\* the business-day branch of _calculate_dates and of date_builder has run
\* with a count n > 0 and has returned
CalcBusinessDaysDone ==
    /\ pc = "done" /\ fn = "_calculate_dates"
    /\ "business_days" \in DOMAIN locals
    /\ locals.days > 0

BuilderBusinessDaysDone ==
    /\ pc = "done" /\ fn \in {"date_builder", "dual_date_builder"}
    /\ "business_days" \in DOMAIN locals
    /\ locals.call.business_days > 0

C3_Result ==
    /\ (pc = "calc_loop" /\ locals.days > 0 /\ locals.business_days = 0) =>
          IsNthWeekdayAfter(locals.delivery_date, locals.days,
                            locals.current_date)
    /\ (pc = "builder_loop" /\ locals.business_days = 0) =>
          IsNthWeekdayAfter(locals.current_date, locals.call.business_days,
                            locals.start_date)
    /\ CalcBusinessDaysDone =>
          /\ result.value.current_date = strftime(clock.pacific)
          /\ result.value.delivery_date =
                strftime(NthWeekdayAfter(clock.pacific, locals.days))
    /\ BuilderBusinessDaysDone =>
          /\ result.value.current_date = strftime(clock.pacific)
          /\ result.value.delivery_date =
                strftime(NthWeekdayAfter(clock.pacific,
                                         locals.call.business_days))

C3_Progress ==
    /\ (pc = "calc_loop" /\ pc' = "calc_loop") =>
          /\ LoopRank(locals'.delivery_date, locals'.business_days)
               < LoopRank(locals.delivery_date, locals.business_days)
          /\ locals'.business_days >= 0
    /\ (pc = "builder_loop" /\ pc' = "builder_loop") =>
          /\ LoopRank(locals'.current_date, locals'.business_days)
               < LoopRank(locals.current_date, locals.business_days)
          /\ locals'.business_days >= 0

\* C3: with a business-day count n > 0 the loop of _calculate_dates and of
\* date_builder ends on the n-th Monday-to-Friday date strictly after the
\* current date, which is the delivery date returned (never a Saturday or a
\* Sunday, never the current date, exactly n weekdays after the current date
\* up to it); every iteration decreases a natural-number rank, so the loop
\* terminates.
C3_BusinessDays == [](C3_Result) /\ [][C3_Progress]_vars

\* ten business days from a Friday: the Friday two weeks later
C3_Witness ==
    /\ CalcBusinessDaysDone
    /\ locals.days = 10
    /\ weekday(clock.pacific) = 4
    /\ result.value.delivery_date = strftime(clock.pacific + 14)

\* C4: Days(n) gives the reported current date plus n calendar
\* days and Weeks(n) the reported current date plus 7n calendar days, in
\* _calculate_dates and in date_builder.
C4_CalendarOffsets ==
    /\ (pc = "done" /\ fn = "_calculate_dates" /\ "timeline" \in DOMAIN locals
          /\ timeline_branch(locals.timeline) = "days") =>
          /\ result.value.current_date = strftime(clock.pacific)
          /\ result.value.delivery_date = strftime(clock.pacific + locals.days)
    /\ (pc = "done" /\ fn = "_calculate_dates" /\ "timeline" \in DOMAIN locals
          /\ timeline_branch(locals.timeline) = "week") =>
          /\ result.value.current_date = strftime(clock.pacific)
          /\ result.value.delivery_date =
                strftime(clock.pacific + 7 * locals.weeks)
    /\ (pc = "done" /\ fn = "date_builder" /\ args.business_days = 0
          /\ args.weeks = 0) =>
          /\ result.value.current_date = strftime(clock.pacific)
          /\ result.value.delivery_date = strftime(clock.pacific + args.days)
    /\ (pc = "done" /\ fn = "date_builder" /\ args.business_days = 0
          /\ args.days = 0) =>
          /\ result.value.current_date = strftime(clock.pacific)
          /\ result.value.delivery_date =
                strftime(clock.pacific + 7 * args.weeks)

\* the operator was asked prompt p
Asked(p) == \E i \in 1..Len(io) : io[i] = p

\* collect_engagement_data has returned for a secondary review without
\* pre-filled dates
SecWithoutDates ==
    /\ pc = "done" /\ fn = "collect_engagement_data"
    /\ "value" \in DOMAIN result
    /\ upper(args.letter_type) = S_SEC
    /\ ~truthy(args.dates_info)

\* C5: for letter type SEC without pre-filled dates the record
\* has delivery_date "N/A" and the operator is asked for no duration and no
\* delivery date, whatever use_autofill is.
C5_SecNeverAsked ==
    SecWithoutDates =>
       /\ result.value.dates.delivery_date = S_N_A
       /\ ~Asked("Delivery timeline")
       /\ ~Asked("Delivery date")

\* the quantity a duration text without digits defaults to, by branch
DefaultQuantity(branch) ==
    IF branch = "bd" THEN 10 ELSE IF branch = "week" THEN 1 ELSE 7

\* C6: the date computation never raises on a malformed
\* duration text: in _calculate_dates and in the parse of input_builder and
\* dual_date_builder every text yields a dates record, the quantity of a
\* text without digits being 10 (business days), 1 (weeks) or 7 (days).
C6_MalformedDurationDefaults ==
    /\ (pc = "done" /\ fn = "_calculate_dates" /\ "timeline" \in DOMAIN locals) =>
          /\ "value" \in DOMAIN result
          /\ {"current_date", "delivery_date"} \subseteq DOMAIN result.value
          /\ filter_isdigit(locals.timeline) = <<>> =>
                LET branch == timeline_branch(locals.timeline)
                IN IF branch = "week"
                   THEN locals.weeks = DefaultQuantity(branch)
                   ELSE locals.days = DefaultQuantity(branch)
    /\ (pc = "done" /\ fn = "dual_date_builder") =>
          /\ "value" \in DOMAIN result
          /\ {"current_date", "delivery_date"} \subseteq DOMAIN result.value
    /\ (pc = "done" /\ fn = "input_builder" /\ "date_step" \in DOMAIN locals) =>
          "dates" \in DOMAIN locals

\* the delivery date of a duration tag, from the current date
DeliveryOf(tag, n, start) ==
    IF tag = "BusinessDays"
    THEN (IF n > 0 THEN NthWeekdayAfter(start, n) ELSE start)
    ELSE IF tag = "Weeks" THEN start + 7 * n
    ELSE start + n

\* a text "<quantity> <unit>": two pieces, the first a number
IsQuantityUnit(text) ==
    /\ Len(split(text)) = 2
    /\ int_parses(split(text)[1])
    /\ split(text)[1] = strip(split(text)[1])

TagOfUnit(unit) ==
    IF unit = S_bds THEN "BusinessDays"
    ELSE IF unit = S_wks THEN "Weeks"
    ELSE "Days"

ClaimedDelivery(text, start) ==
    strftime(DeliveryOf(TagOfUnit(split(text)[2]),
                        int_of_digits(split(text)[1]), start))

\* C7: a text "<quantity> <unit>" is read as BusinessDays for
\* the unit bds, as Weeks for the unit wks and as Days for every other unit,
\* in _calculate_dates, input_builder and dual_date_builder alike ("2 wks":
\* 14 calendar days after the current date).
C7_UnitTokens ==
    /\ (pc = "done" /\ fn = "_calculate_dates" /\ "timeline" \in DOMAIN locals
          /\ IsQuantityUnit(locals.timeline)) =>
          result.value.delivery_date =
             ClaimedDelivery(locals.timeline, clock.pacific)
    /\ (pc = "done" /\ fn = "dual_date_builder"
          /\ IsQuantityUnit(args.date_step)) =>
          /\ "value" \in DOMAIN result
          /\ result.value.delivery_date =
                ClaimedDelivery(args.date_step, clock.pacific)
    /\ (pc = "ib_rest" /\ "date_step" \in DOMAIN locals
          /\ IsQuantityUnit(locals.date_step)) =>
          locals.dates.delivery_date =
             ClaimedDelivery(locals.date_step, clock.pacific)

-----------------------------------------------------------------------------
(* Vendor Resolver: the claims *)

\* sub is in s, letter case ignored: no pattern, the characters themselves
ContainsIgnoringCase(s, sub) == contains(upper(s), upper(sub))

\* the vendor type a lookup filters by
LookupType(vendor_type) ==
    IF upper(vendor_type) \in {S_PHASE_1, S_PHASE_2} THEN S_Env
    ELSE vendor_type

\* the rows of the dataset, in file order, that a test selects
RowsWhere(rows, Test(_)) == SelectSeq(rows, Test)

\* the rows whose Type contains the vendor type and whose First contains
\* the first-name query, as case-insensitive substrings
SubstringCandidates(db, vendor_type, first_name) ==
    LET Test(r) ==
          /\ ContainsIgnoringCase(r.Type, LookupType(vendor_type))
          /\ ContainsIgnoringCase(r.First, first_name)
    IN RowsWhere(db.rows, Test)

\* _autofill_vendor has returned from a lookup in a readable dataset with
\* its expected columns, the operator having typed a name (not NA)
LookupDone ==
    /\ pc = "done" /\ fn = "_autofill_vendor"
    /\ args.database.status = "ok"
    /\ row_has_columns(args.database)
    /\ upper(locals.first_name) # S_NA

\* C8: the candidates are exactly the rows whose Type contains
\* the vendor type and whose First contains the first-name query as
\* case-insensitive substrings; one candidate is returned reshaped, no
\* candidate means manual entry.
C8_SubstringCandidates ==
    LookupDone =>
       LET candidates == SubstringCandidates(args.database, args.vendor_type,
                                             locals.first_name)
       IN /\ Len(candidates) = 1 =>
                /\ locals.source = "row"
                /\ result.value = vendor_of_row(args.database, candidates[1])
          /\ Len(candidates) = 0 =>
                /\ locals.source = "manual"
                /\ Asked("Vendor first name")

\* the rows the first-name query matched, and those the last-name query
\* narrows them to
FirstNameMatches(db, vendor_type, first_name) ==
    filter_rows(filter_rows(db.rows, "Type", LookupType(vendor_type)),
                "First", first_name)

LastNameMatches(db, vendor_type, first_name, last_name) ==
    filter_rows(FirstNameMatches(db, vendor_type, first_name), "Last",
                last_name)

\* C9: when the first-name query matches more than one row, a
\* dataset row is returned only if the last-name query narrows the matches
\* to exactly one row, and then that row; with zero or several rows left no
\* dataset row is returned and manual entry is taken (the legacy autofill
\* returns no row either).
C9_LastNameNarrows ==
    /\ (LookupDone
          /\ Len(FirstNameMatches(args.database, args.vendor_type,
                                  locals.first_name)) > 1) =>
          LET refined == LastNameMatches(args.database, args.vendor_type,
                                         locals.first_name, locals.last_name)
          IN IF Len(refined) = 1
             THEN /\ locals.source = "row"
                  /\ result.value = vendor_of_row(args.database, refined[1])
             ELSE /\ locals.source = "manual"
                  /\ Asked("Vendor first name")
    /\ (pc = "done" /\ fn = "autofill" /\ "value" \in DOMAIN result
          /\ locals.first # S_NA
          /\ Len(filter_rows(filter_rows(args.data.rows, "Type",
                                         args.type_value),
                             "First", locals.first)) > 1) =>
          LET refined ==
                filter_rows(filter_rows(filter_rows(args.data.rows, "Type",
                                                    args.type_value),
                                        "First", locals.first),
                            "Last", locals.last)
          IN IF Len(refined) = 1
             THEN /\ result.value.type = "dict"
                  /\ result.value.dict = row_to_dict(args.data, refined[1])
             ELSE result.value.type = "str"

\* the dataset file is missing or unreadable, or lacks an expected column
DatasetUnavailable(db) == db.status # "ok" \/ ~row_has_columns(db)

FourSubRecords(record) ==
    /\ {"vendor", "dates", "loan", "property"} \subseteq DOMAIN record
    /\ \A k \in {"vendor", "dates", "loan", "property"} :
          DOMAIN record[k] # {}

\* the last six prompts issued were those of manual entry
EndsWithManualEntry(asked) ==
    /\ Len(asked) >= Len(ManualPrompts)
    /\ SubSeq(asked, Len(asked) - Len(ManualPrompts) + 1, Len(asked))
         = ManualPrompts

\* C10: when the dataset file is missing, unreadable or lacks an expected
\* column, _autofill_vendor raises nothing and returns the vendor typed at
\* the manual-entry prompts, and collect_engagement_data completes with its
\* four sub-records present.
C10_DatasetUnavailable ==
    /\ (pc = "done" /\ fn = "_autofill_vendor"
          /\ DatasetUnavailable(args.database)) =>
          /\ "value" \in DOMAIN result
          /\ locals.source = "manual"
          /\ EndsWithManualEntry(io)
          /\ DOMAIN result.value =
                {"first_name", "last_name", "company", "email", "type",
                 "region"}
    /\ (fn = "collect_engagement_data" /\ "database" \in DOMAIN locals
          /\ DatasetUnavailable(locals.database)) =>
          /\ "raised" \notin DOMAIN result
          /\ locals.vendor_source = "manual"
          /\ DOMAIN locals.engagement_data.vendor =
                {"first_name", "last_name", "company", "email", "type",
                 "region"}
          /\ pc = "done" =>
                /\ "value" \in DOMAIN result
                /\ FourSubRecords(result.value)

C10_Witness ==
    /\ pc = "done" /\ fn = "collect_engagement_data"
    /\ "database" \in DOMAIN locals
    /\ locals.database.status = "missing"
    /\ locals.vendor_source = "manual"
    /\ Asked("Vendor email")
    /\ FourSubRecords(result.value)

-----------------------------------------------------------------------------
(* Loan and property sub-records: the claims *)

\* a loan sub-record that _collect_loan_info produced, with the loan type
\* and the answers it was produced from
LoanInfoProduced(loan, loan_type, typed) ==
    /\ "cdc_company" \in DOMAIN loan
    /\ IF upper(loan_type) = S_504
       THEN /\ loan.cdc_company = strip(typed.cdc_company)
            /\ Asked("CDC company")
       ELSE /\ loan.cdc_company = S_N_A
            /\ ~Asked("CDC company")

\* C11: in every loan sub-record that _collect_loan_info produces the key
\* cdc_company is present; it is the CDC company the operator typed (blanks
\* around it removed) when the loan type upper-cases to 504, and the literal
\* "N/A" for every other loan type, the operator then not being asked.
C11_CdcCompany ==
    /\ (pc = "done" /\ fn = "_collect_loan_info") =>
          LoanInfoProduced(result.value, args.loan_type, locals.typed)
    /\ (pc = "done" /\ fn = "collect_engagement_data"
          /\ "value" \in DOMAIN result /\ ~truthy(args.loan_info)) =>
          /\ "cdc_company" \in DOMAIN result.value.loan
          /\ (upper(args.loan_type) # S_504) =>
                result.value.loan.cdc_company = S_N_A
          /\ (upper(args.loan_type) = S_504) => Asked("CDC company")

C11_Witness ==
    /\ pc = "done" /\ fn = "_collect_loan_info"
    /\ args.loan_type = S_504
    /\ locals.typed.cdc_company = <<" ","C","D"," ">>
    /\ result.value.cdc_company = <<"C","D">>

\* C12: in every property sub-record that _collect_property_info produces,
\* fee is "600" when the letter type upper-cases to SEC, the key fee is
\* absent for the letter type DUAL of the dual-letter flow, and fee is what
\* the operator typed (blanks around it removed) for every other letter
\* type; item_to_send is "TBD" when the operator leaves it empty.
C12_PropertyFee ==
    (pc = "done" /\ fn = "_collect_property_info") =>
       LET property_info == result.value
           letter_type == upper(args.letter_type)
       IN /\ (letter_type = S_SEC) =>
                /\ property_info.fee = S_600
                /\ ~Asked("Fee")
          /\ (letter_type = S_DUAL) =>
                /\ "fee" \notin DOMAIN property_info
                /\ ~Asked("Fee")
          /\ (letter_type \notin {S_SEC, S_DUAL}) =>
                /\ property_info.fee = strip(locals.typed.fee)
                /\ Asked("Fee")
          /\ (strip(locals.typed.item_to_send) = <<>>) =>
                property_info.item_to_send = S_TBD
          /\ (strip(locals.typed.item_to_send) # <<>>) =>
                property_info.item_to_send = strip(locals.typed.item_to_send)

C12_Witness ==
    /\ pc = "done" /\ fn = "_collect_property_info"
    /\ args.letter_type = <<"s","e","c">>
    /\ locals.typed.item_to_send = <<" "," ">>
    /\ result.value.fee = S_600
    /\ result.value.item_to_send = S_TBD

-----------------------------------------------------------------------------
(* Substitution Engine: the claims *)

RECURSIVE Flatten(_)
Flatten(ss) == IF ss = <<>> THEN <<>> ELSE Head(ss) \o Flatten(Tail(ss))

\* every paragraph of a document: the body's, then each section's header,
\* first-page header and footer paragraphs, then each table cell's
AllParagraphs(doc) ==
    doc.paragraphs
    \o Flatten([i \in 1..Len(doc.sections) |->
                  doc.sections[i].header
                  \o doc.sections[i].first_page_header
                  \o doc.sections[i].footer])
    \o Flatten(Flatten(Flatten(doc.tables)))

HasRecognizedToken(text) ==
    \E i \in 1..Len(PlaceholderTable) :
       contains(text, PlaceholderTable[i].placeholder)

NoRecognizedTokenLeft(doc) ==
    \A i \in 1..Len(AllParagraphs(doc)) :
       ~HasRecognizedToken(AllParagraphs(doc)[i])

\* the mapping of a record whose every field is filled in
FullyPopulated(placeholders) ==
    /\ Len(placeholders) = Len(PlaceholderTable)
    /\ \A i \in 1..Len(placeholders) : placeholders[i].replacement # <<>>

\* no value of the mapping holds a recognized token
ValuesTokenFree(placeholders) ==
    \A i \in 1..Len(placeholders) :
       ~HasRecognizedToken(placeholders[i].replacement)

ReplacementsOf(placeholders) ==
    [i \in 1..Len(placeholders) |-> placeholders[i].replacement]

SubstitutionDone ==
    pc = "done" /\ fn = "_replace_placeholders_in_document"

\* the document is the template of every token with each token's value
\* where the token was, and holds no recognized token
RoundTrip ==
    /\ \A region \in Regions, per \in SlotsPerParagraph :
          (args.doc = template_of(region, per)) =>
             result.value = document_with(region, per,
                                          ReplacementsOf(args.placeholders))
    /\ NoRecognizedTokenLeft(result.value)

UnrecognizedTokens ==
    { <<"{","{","f","o","o","}","}">>, <<"{","{","F","e","e","}","}">> }

\* how many times sub occurs in s
Occurrences(s, sub) ==
    Cardinality({ i \in 1..(Len(s) - Len(sub) + 1) :
                    SubSeq(s, i, i + Len(sub) - 1) = sub })

\* C16: substitution alters no text that is not a recognized token: for
\* every record, every paragraph holding no recognized token is the same
\* before and after _replace_placeholders_in_document, and every paragraph
\* holds each unrecognized delimiter-wrapped token as many times after as
\* before.
C16_OnlyRecognizedTokens ==
    SubstitutionDone =>
       LET before == AllParagraphs(args.doc)
           after == AllParagraphs(result.value)
       IN /\ Len(after) = Len(before)
          /\ \A i \in 1..Len(before) :
                /\ ~HasRecognizedToken(before[i]) => after[i] = before[i]
                /\ \A u \in UnrecognizedTokens :
                      Occurrences(after[i], u) = Occurrences(before[i], u)

C16_Witness ==
    /\ SubstitutionDone
    /\ args.doc = template_of("table", 1)
    /\ result.value.tables[1][1][1] = PlainParagraphs
    /\ result.value.tables[1][1][2][2] = S_Unrecognized
    /\ args.doc.tables[1][1][2][3]
         = S_Before \o PlaceholderTable[1].placeholder \o S_After
    /\ result.value.tables[1][1][2][3]
         = S_Before \o args.placeholders[1].replacement \o S_After
    /\ args.placeholders[1].replacement # PlaceholderTable[1].placeholder

-----------------------------------------------------------------------------
(* Letter generation: the claims *)

LetterDone == pc = "done" /\ fn = "generate_engagement_letter"

\* the template the request resolves to is in the template directory
TemplatePresent ==
    /\ {"loan_type", "letter_type"} \subseteq DOMAIN args.data
    /\ _get_template_path(args.data.loan_type, args.data.letter_type,
                          args.template_dir) \in DOMAIN fs.templates

\* the value a token stands for: the record's, or the empty text, or the
\* documented default of item_to_send and cdc_company
ValueOrDefault(data, i) ==
    LET e == PlaceholderTable[i]
    IN IF e.key \in DOMAIN data[e.sub] THEN data[e.sub][e.key]
       ELSE IF e.key = "item_to_send" THEN S_TBD
       ELSE IF e.key = "cdc_company" THEN S_N_A
       ELSE <<>>

\* C17: a record whose vendor, dates, loan or property sub-record lacks a
\* key (loan.loan_name included) is not fatal for
\* generate_engagement_letter: with the template present and the output
\* directory taking the file, the document is produced, each token standing
\* for a missing key is replaced by the empty text (by "TBD" for
\* item_to_send, "N/A" for cdc_company), and no recognized token is left.
C17_MissingKeyNotFatal ==
    (LetterDone /\ TemplatePresent /\ fs.writable) =>
       /\ "value" \in DOMAIN result
       /\ Len(fs.outputs) = 1
       /\ NoRecognizedTokenLeft(fs.outputs[1].doc)
       /\ fs.outputs[1].doc =
             document_with("table", 4,
                [i \in 1..Len(PlaceholderTable) |->
                   ValueOrDefault(args.data, i)])

\* the display label of the table the Template Selector takes its suffix
\* from, by the name of the template selected
LabelOfTemplate(rest) ==
    CASE rest = " - Appraisal Engagement Letter.docx" -> D_Appraisal
      [] rest = " - Appraisal Review Engagement Letter.docx" ->
            D_Appraisal_Review
      [] rest = " - Environmental Engagement Letter.docx" -> D_Environmental
      [] rest = " - Phase 1 Engagement Letter.docx" -> D_Phase_1
      [] rest = " - Phase 2 Engagement Letter.docx" -> D_Phase_2

\* C18: with no output filename supplied, generate_engagement_letter names
\* the output "{loan_name} {display_label} Engagement Letter" (with the
\* document extension), display_label followed by " Engagement Letter"
\* being, for every letter type, the suffix of the template selected for
\* that letter type.
C18_FilenameFromTemplateTable ==
    (LetterDone /\ "value" \in DOMAIN result
       /\ (args.output_filename.is_none \/ args.output_filename.text = <<>>)) =>
       /\ result.value.dir = args.output_dir
       /\ result.value.name =
             args.data.loan.loan_name \o <<" ">>
             \o LabelOfTemplate(locals.template_path.name.rest)
             \o S_Engagement_Letter_docx

\* what holds of a request of generate_engagement_letter in every state
C19_State ==
    (fn = "generate_engagement_letter") =>
       /\ (pc # "done" \/ "raised" \in DOMAIN result) => fs.outputs = <<>>
       /\ (pc = "done" /\ "value" \in DOMAIN result) =>
             /\ Len(fs.outputs) = 1
             /\ fs.outputs[1].path = result.value
       /\ (pc = "done" /\ {"loan_type", "letter_type", "loan"}
                            \subseteq DOMAIN args.data
             /\ "loan_name" \in DOMAIN args.data.loan
             /\ ~TemplatePresent) =>
             /\ "raised" \in DOMAIN result
             /\ result.raised = "FileNotFoundError"
             /\ result.message.path =
                   _get_template_path(args.data.loan_type,
                                      args.data.letter_type,
                                      args.template_dir)
             /\ fs.outputs = <<>>

\* a document is written only by the step that returns the output path
C19_Step ==
    (fn = "generate_engagement_letter" /\ fn' = fn
       /\ fs'.outputs # fs.outputs) =>
       /\ pc = "gel_save" /\ pc' = "done"
       /\ "value" \in DOMAIN result'
       /\ fs.outputs = <<>>

\* C19: a request of generate_engagement_letter either succeeds, having
\* written exactly one document, the one at the path it returns, or raises
\* with no document written; nothing is written before the step that
\* returns; when the resolved template does not exist it raises
\* FileNotFoundError with the attempted template path in the message and
\* no document written.
C19_AllOrNothing == [](C19_State) /\ [][C19_Step]_vars

C19_Witness ==
    /\ LetterDone
    /\ "raised" \in DOMAIN result
    /\ result.raised = "FileNotFoundError"
    /\ result.message.path.name =
          [loan |-> <<"7","A">>, rest |-> " - Phase 1 Engagement Letter.docx"]
    /\ DOMAIN fs.templates # {}
    /\ fs.writable
    /\ fs.outputs = <<>>

-----------------------------------------------------------------------------
(* Dual letters: the claims *)

DualDone == pc = "done" /\ fn = "generate_dual_engagement_letters"

\* the property sub-record of a side's record after the call: the
\* dictionary its "property" names
PropertyOf(side) ==
    IF side.property = "dual_data.shared.property"
    THEN locals.dual_data.shared.property
    ELSE Empty

\* C13: dual generation with appraisal.dates.fee = "500" and
\* environmental.dates.fee = "750" gives two independent property
\* sub-records, fee "500" on the appraisal side and "750" on the
\* environmental side, both still so after
\* generate_dual_engagement_letters returns, loan_name being the same on
\* both sides.
C13_IndependentFees ==
    (DualDone /\ "value" \in DOMAIN result
       /\ "fee" \in DOMAIN args.dual_data.appraisal.dates
       /\ "fee" \in DOMAIN args.dual_data.environmental.dates
       /\ args.dual_data.appraisal.dates.fee = S_500
       /\ args.dual_data.environmental.dates.fee = S_750) =>
       /\ PropertyOf(locals.app_data).fee = S_500
       /\ PropertyOf(locals.env_data).fee = S_750
       /\ locals.app_data.loan.loan_name = locals.env_data.loan.loan_name

\* the document saved at the output name ending as given, if any
SavedAs(ending) ==
    SelectSeq(fs.outputs,
              LAMBDA o : o.path.name
                           = args.dual_data.shared.loan.loan_name \o ending)

\* a side's letter with the fee of that side's own dates, the shared
\* property's own fee when the side's dates have none
OwnFeeLetter(side) ==
    _replace_placeholders_in_document(
       LetterTemplate,
       _data_to_placeholders(
          [vendor |-> side.vendor, dates |-> side.dates,
           loan |-> args.dual_data.shared.loan,
           property |-> IF "fee" \in DOMAIN side.dates
                        THEN [fee |-> side.dates.fee]
                             @@ args.dual_data.shared.property
                        ELSE args.dual_data.shared.property]))

\* C14: in generate_dual_engagement_letters the fee put into each side's
\* letter is that side's own dates.fee: the appraisal side's fee is never
\* what stands for the fee token of the environmental letter, also when
\* environmental.dates has no fee and appraisal.dates has one.
C14_OwnFee ==
    (DualDone /\ "value" \in DOMAIN result) =>
       /\ Len(SavedAs(S_Appraisal_Engagement_Letter_docx)) = 1
       /\ SavedAs(S_Appraisal_Engagement_Letter_docx)[1].doc
            = OwnFeeLetter(args.dual_data.appraisal)
       /\ Len(SavedAs(S_Phase_1_Engagement_Letter_docx)) = 1
       /\ SavedAs(S_Phase_1_Engagement_Letter_docx)[1].doc
            = OwnFeeLetter(args.dual_data.environmental)

\* the template of a side is in the template directory
SideTemplatePresent(letter_type) ==
    _get_template_path(args.dual_data.loan_type, letter_type,
                       args.template_dir) \in DOMAIN fs.templates

\* C20: the dual-letter flow keeps the failure of one side from the other:
\* with the appraisal template missing the environmental letter is still
\* produced when its own inputs are good, and with the environmental
\* letter failing the path of the appraisal letter already produced is
\* still returned to the caller.
C20_SidesIsolated ==
    (DualDone /\ "loan_name" \in DOMAIN args.dual_data.shared.loan
       /\ fs.writable) =>
       /\ SideTemplatePresent(S_ENV) =>
             Len(SavedAs(S_Phase_1_Engagement_Letter_docx)) = 1
       /\ SideTemplatePresent(S_APP) =>
             /\ Len(SavedAs(S_Appraisal_Engagement_Letter_docx)) = 1
             /\ "value" \in DOMAIN result
             /\ result.value.paths[1]
                  = SavedAs(S_Appraisal_Engagement_Letter_docx)[1].path

-----------------------------------------------------------------------------
(* Claims C21, C22: what document generation does to its record, and the
   order of token replacement *)

\* the dual flow has returned its paths to the caller
DualReturned == DualDone /\ "value" \in DOMAIN result

\* C21: document generation only reads the record it is given: after
\* generate_dual_engagement_letters (called directly or through
\* generate_from_json) returns, every sub-record of the caller's record,
\* shared.loan and shared.property included, has exactly the keys and
\* values it had before the call. locals.dual_data is the caller's
\* dictionary as the call left it, args.dual_data its value at the call.
C21_RecordOnlyRead ==
    DualReturned =>
       /\ locals.dual_data.appraisal = args.dual_data.appraisal
       /\ locals.dual_data.environmental = args.dual_data.environmental
       /\ locals.dual_data.shared.loan = args.dual_data.shared.loan
       /\ locals.dual_data.shared.property = args.dual_data.shared.property

\* the items of a mapping in the opposite order
Reversed(items) == [i \in 1..Len(items) |-> items[Len(items) + 1 - i]]

\* the items of a mapping starting from item k + 1
Rotated(items, k) ==
    [i \in 1..Len(items) |-> items[((i + k - 1) % Len(items)) + 1]]

\* orders in which the tokens of a mapping can be replaced: the order of the
\* code, its rotations and its reverse
ReplacementOrders(items) ==
    {Reversed(items)} \cup { Rotated(items, k) : k \in 0..(Len(items) - 1) }

-----------------------------------------------------------------------------
(* Claim C23: pre-filled sub-records of collect_engagement_data *)

CedDone ==
    /\ pc = "done"
    /\ fn = "collect_engagement_data"
    /\ "value" \in DOMAIN result

\* the caller supplies a pre-filled value: a dictionary with entries
Supplied(o) == ~o.is_none /\ DOMAIN o.dict # {}

\* a prompt of the list was shown to the operator
Prompted(prompts) == \E i \in 1..Len(io), j \in 1..Len(prompts) : io[i] = prompts[j]

\* the prompts of the vendor lookup and of the manual vendor entry
VendorPrompts ==
    ManualPrompts \o <<"Enter vendor's first name", "Enter last name">>

DatePrompts == <<"Delivery timeline", "Current date", "Delivery date">>

LoanPrompts == <<"Loan name", "Loan number", "CDC company">>

PropertyPrompts ==
    <<"Property address", "Property type", "Square footage",
      "Property contact name", "Property contact phone", "Item to send",
      "Fee">>

\* the collection steps a finished call has run, by sub-record: a vendor
\* lookup opens the dataset, a date computation reads the clock
VendorCollected == Prompted(VendorPrompts) \/ "database" \in DOMAIN locals

DatesCollected == Prompted(DatePrompts) \/ clock # NoClock

LoanCollected == Prompted(LoanPrompts)

PropertyCollected == Prompted(PropertyPrompts)

\* C23: in collect_engagement_data, whenever the caller supplies a
\* pre-filled vendor, dates, loan or property, the returned record holds
\* exactly that value and no collection step for it has run (no vendor
\* lookup, no date computation, no prompt); a sub-record is collected only
\* when no pre-filled value is supplied; and the returned record always
\* holds loan_type and letter_type upper-cased and the four sub-record keys.
C23_PrefilledBypass ==
    CedDone =>
       /\ DOMAIN result.value
            = {"loan_type", "letter_type", "vendor", "dates", "loan",
               "property"}
       /\ result.value.loan_type = upper(args.loan_type)
       /\ result.value.letter_type = upper(args.letter_type)
       /\ IF Supplied(args.vendor_info)
          THEN result.value.vendor = args.vendor_info.dict /\ ~VendorCollected
          ELSE VendorCollected
       /\ IF Supplied(args.dates_info)
          THEN result.value.dates = args.dates_info.dict /\ ~DatesCollected
          ELSE DatesCollected
       /\ IF Supplied(args.loan_info)
          THEN result.value.loan = args.loan_info.dict /\ ~LoanCollected
          ELSE LoanCollected
       /\ IF Supplied(args.property_info)
          THEN result.value.property = args.property_info.dict
               /\ ~PropertyCollected
          ELSE PropertyCollected

\* a call with the vendor and the property pre-filled, the dates given as an
\* empty dictionary and no loan given: the first two are taken as they are,
\* the other two are collected
C23_Witness ==
    /\ CedDone
    /\ Supplied(args.vendor_info)
    /\ Supplied(args.property_info)
    /\ args.dates_info = Some(Empty)
    /\ args.loan_info = PyNone
    /\ result.value.vendor = PrefilledVendor
    /\ result.value.property = PrefilledProperty
    /\ DatesCollected
    /\ LoanCollected

=============================================================================
